---- MODULE Spec2Model ----
(***************************************************************************)
(* Model of the meta-ads command line client: the Graph API client         *)
(* (internal/api/client.go), the pagination loop, and the browser login    *)
(* flow of the auth command.                                               *)
(*                                                                         *)
(* Go strings that are URLs or paths are records                           *)
(*   [valid, scheme, host, path, query]                                    *)
(* where path is the sequence of path segments and query is a url.Values.  *)
(* A url.Values is a function from parameter names to the first value of   *)
(* each name (buildURL and Post only ever read vs[0]).                     *)
(* JSON documents are records tagged by kind.                              *)
(***************************************************************************)
EXTENDS Integers, Sequences, FiniteSets, TLC

\* ------------------------------------------------------------------------
\* Bounds of the model
\* ------------------------------------------------------------------------
MaxPages == 3      \* requests one GetAll run may issue before the model stops it

\* ------------------------------------------------------------------------
\* Go values
\* ------------------------------------------------------------------------
Null == [nil |-> TRUE]

EmptyValues == [k \in {} |-> ""]

ValuesGet(v, k) == IF k \in DOMAIN v THEN v[k] ELSE ""

ValuesSet(v, k, x) == [n \in (DOMAIN v) \cup {k} |-> IF n = k THEN x ELSE v[n]]

\* q.Set(k, vs[0]) for every k of src, applied to dst
ValuesMerge(dst, src) ==
    [n \in (DOMAIN dst) \cup (DOMAIN src) |-> IF n \in DOMAIN src THEN src[n] ELSE dst[n]]

\* fmt.Sprintf("%d", n)
FormatInt(n) == ToString(n)

EmptyString == [valid |-> TRUE, scheme |-> "", host |-> "", path |-> <<>>, query |-> EmptyValues]

RelPath(segs) == [valid |-> TRUE, scheme |-> "", host |-> "", path |-> segs, query |-> EmptyValues]

FullURL(host, segs, q) == [valid |-> TRUE, scheme |-> "https", host |-> host, path |-> segs, query |-> q]

\* a string that starts with "http" and that url.Parse rejects
BrokenURL == [valid |-> FALSE, scheme |-> "https", host |-> "[::1", path |-> <<>>, query |-> EmptyValues]

baseURL == FullURL("graph.facebook.com", <<"v25.0">>, EmptyValues)

HasPrefixHttp(s) == s.scheme \in {"http", "https"}

\* ------------------------------------------------------------------------
\* JSON documents
\* ------------------------------------------------------------------------
JNull == [kind |-> "null"]
JNum(n) == [kind |-> "number", n |-> n]
JStr(s) == [kind |-> "string", s |-> s]
JArr(items) == [kind |-> "array", items |-> items]
JObj(members) == [kind |-> "object", members |-> members]
JText == [kind |-> "text"]               \* bytes that are not a JSON document

JHas(obj, name) == name \in DOMAIN obj.members /\ obj.members[name].kind # "null"

\* a member is decodable into a Go field of the given kind when it is absent,
\* null, or of that kind
JFits(obj, name, kind) == ~JHas(obj, name) \/ obj.members[name].kind = kind

JInt(obj, name) == IF JHas(obj, name) THEN obj.members[name].n ELSE 0

JString(obj, name) == IF JHas(obj, name) THEN obj.members[name].s ELSE ""

\* ------------------------------------------------------------------------
\* types: MetaError, Paging
\* ------------------------------------------------------------------------
MetaError(code, message, type, subcode) ==
    [kind |-> "api", Code |-> code, Message |-> message, Type |-> type, Subcode |-> subcode]

\* json.Unmarshal(body, &errResp) with errResp struct{ Error *MetaError }
DecodeErrResp(body) ==
    IF body.kind = "text" THEN [err |-> TRUE, Error |-> Null]
    ELSE IF body.kind = "null" THEN [err |-> FALSE, Error |-> Null]
    ELSE IF body.kind # "object" THEN [err |-> TRUE, Error |-> Null]
    ELSE IF ~JHas(body, "error") THEN [err |-> FALSE, Error |-> Null]
    ELSE LET e == body.members["error"] IN
         IF e.kind # "object" THEN [err |-> TRUE, Error |-> Null]
         ELSE [err |-> ~(/\ JFits(e, "code", "number")
                         /\ JFits(e, "message", "string")
                         /\ JFits(e, "type", "string")
                         /\ JFits(e, "error_subcode", "number")),
               Error |-> MetaError(IF JFits(e, "code", "number") THEN JInt(e, "code") ELSE 0,
                                   IF JFits(e, "message", "string") THEN JString(e, "message") ELSE "",
                                   IF JFits(e, "type", "string") THEN JString(e, "type") ELSE "",
                                   IF JFits(e, "error_subcode", "number") THEN JInt(e, "error_subcode") ELSE 0)]

\* json.Unmarshal(body, &page) with page struct{ Data []json.RawMessage; Paging *Paging }
DecodePage(body) ==
    IF body.kind = "text" THEN [err |-> TRUE, Data |-> <<>>, Paging |-> Null]
    ELSE IF body.kind = "null" THEN [err |-> FALSE, Data |-> <<>>, Paging |-> Null]
    ELSE IF body.kind # "object" THEN [err |-> TRUE, Data |-> <<>>, Paging |-> Null]
    ELSE LET dataOK == JFits(body, "data", "array")
             pagOK == JFits(body, "paging", "object")
             pag == body.members["paging"]
             nextOK == ~pagOK \/ ~JHas(body, "paging") \/ JFits(pag, "next", "string")
         IN [err |-> ~(dataOK /\ pagOK /\ nextOK),
             Data |-> IF dataOK /\ JHas(body, "data") THEN body.members["data"].items ELSE <<>>,
             Paging |-> IF pagOK /\ JHas(body, "paging")
                        THEN [Next |-> IF nextOK /\ JHas(pag, "next")
                                       THEN pag.members["next"].s ELSE EmptyString]
                        ELSE Null]

\* ------------------------------------------------------------------------
\* api.Client
\* ------------------------------------------------------------------------
NewClient(token, appSecret) == [token |-> token, appSecret |-> appSecret]

\* hex(HMAC-SHA256(key, msg)): a non-empty string determined by (key, msg)
HmacSha256Hex(key, msg) == ToString(<<"hmac-sha256", key, msg>>)

appSecretProof(c) ==
    IF c.appSecret = "" THEN "" ELSE HmacSha256Hex(c.appSecret, c.token)

baseParams_AlwaysProof(c) ==
    ValuesSet(ValuesSet(EmptyValues, "access_token", c.token), "appsecret_proof", appSecretProof(c))

baseParams(c) ==
    LET params == ValuesSet(EmptyValues, "access_token", c.token)
        proof == appSecretProof(c)
    IN IF proof # "" THEN ValuesSet(params, "appsecret_proof", proof) ELSE params

RateLimitThreshold == 75

max(a, b) == IF a > b THEN a ELSE b

RECURSIVE RateWarnings(_)
RateWarnings(entries) ==
    IF entries = <<>> THEN <<>>
    ELSE LET e == Head(entries) IN
         (IF e.CallCount > RateLimitThreshold \/ e.TotalTime > RateLimitThreshold
          THEN <<max(e.CallCount, e.TotalTime)>> ELSE <<>>) \o RateWarnings(Tail(entries))

\* the lines checkRateLimit writes to stderr for the response headers
checkRateLimit(header) ==
    IF header.kind = "missing" THEN <<>>
    ELSE IF header.kind = "malformed" THEN <<>>
    ELSE RateWarnings(header.entries)

Ok(body) == [ok |-> TRUE, body |-> body]
Fail(err) == [ok |-> FALSE, err |-> err]

HTTPErrorFrom == 400

doRequest_StatusFirst(resp) ==
    IF resp.kind = "connfail"
    THEN [ret |-> Fail([kind |-> "request failed"]), warn |-> <<>>]
    ELSE IF resp.kind = "readfail"
    THEN [ret |-> Fail([kind |-> "reading response"]), warn |-> checkRateLimit(resp.header)]
    ELSE LET errResp == DecodeErrResp(resp.body) IN
         [ret |-> IF resp.status >= HTTPErrorFrom
                  THEN Fail([kind |-> "HTTP", status |-> resp.status, body |-> resp.body])
                  ELSE IF ~errResp.err /\ errResp.Error # Null
                  THEN Fail(errResp.Error)
                  ELSE Ok(resp.body),
          warn |-> checkRateLimit(resp.header)]

doRequest_Above400(resp) ==
    IF resp.kind = "connfail"
    THEN [ret |-> Fail([kind |-> "request failed"]), warn |-> <<>>]
    ELSE IF resp.kind = "readfail"
    THEN [ret |-> Fail([kind |-> "reading response"]), warn |-> checkRateLimit(resp.header)]
    ELSE LET errResp == DecodeErrResp(resp.body) IN
         [ret |-> IF ~errResp.err /\ errResp.Error # Null
                  THEN Fail(errResp.Error)
                  ELSE IF resp.status > HTTPErrorFrom
                  THEN Fail([kind |-> "HTTP", status |-> resp.status, body |-> resp.body])
                  ELSE Ok(resp.body),
          warn |-> checkRateLimit(resp.header)]

doRequest_FailsWhenLimited(resp) ==
    IF resp.kind = "connfail"
    THEN [ret |-> Fail([kind |-> "request failed"]), warn |-> <<>>]
    ELSE IF resp.kind = "readfail"
    THEN [ret |-> Fail([kind |-> "reading response"]), warn |-> checkRateLimit(resp.header)]
    ELSE LET errResp == DecodeErrResp(resp.body) IN
         [ret |-> IF checkRateLimit(resp.header) # <<>>
                  THEN Fail([kind |-> "rate limited"])
                  ELSE IF ~errResp.err /\ errResp.Error # Null
                  THEN Fail(errResp.Error)
                  ELSE IF resp.status >= HTTPErrorFrom
                  THEN Fail([kind |-> "HTTP", status |-> resp.status, body |-> resp.body])
                  ELSE Ok(resp.body),
          warn |-> checkRateLimit(resp.header)]

\* doRequest: the value returned and the warnings written for a response
doRequest(resp) ==
    IF resp.kind = "connfail"
    THEN [ret |-> Fail([kind |-> "request failed"]), warn |-> <<>>]
    ELSE IF resp.kind = "readfail"
    THEN [ret |-> Fail([kind |-> "reading response"]), warn |-> checkRateLimit(resp.header)]
    ELSE LET errResp == DecodeErrResp(resp.body) IN
         [ret |-> IF ~errResp.err /\ errResp.Error # Null
                  THEN Fail(errResp.Error)
                  ELSE IF resp.status >= HTTPErrorFrom
                  THEN Fail([kind |-> "HTTP", status |-> resp.status, body |-> resp.body])
                  ELSE Ok(resp.body),
          warn |-> checkRateLimit(resp.header)]

buildURL(path, base, extra) ==
    LET u == IF HasPrefixHttp(path) THEN path
             ELSE [baseURL EXCEPT !.path = baseURL.path \o path.path,
                                  !.query = path.query,
                                  !.valid = path.valid]
    IN IF ~u.valid THEN [err |-> TRUE, url |-> EmptyString]
       ELSE [err |-> FALSE,
             url |-> [u EXCEPT !.query = ValuesMerge(ValuesMerge(u.query, base), extra)]]

\* Client.Get: the request it sends (none when the URL does not parse), and
\* what it returns when the server answers resp
ClientGet(c, path, params, resp) ==
    LET b == buildURL(path, baseParams(c), params) IN
    IF b.err THEN [sent |-> <<>>, got |-> <<>>, ret |-> Fail([kind |-> "parse"]), warn |-> <<>>]
    ELSE LET d == doRequest(resp) IN
         [sent |-> <<[method |-> "GET", url |-> b.url, form |-> EmptyValues]>>,
          got |-> <<resp>>, ret |-> d.ret, warn |-> d.warn]

\* Client.Post: as ClientGet, plus the caller's body map after the call
ClientPost(c, path, body, resp) ==
    LET b == buildURL(path, baseParams(c), EmptyValues)
        merged == ValuesMerge(body, baseParams(c))
    IN IF b.err THEN [sent |-> <<>>, got |-> <<>>, ret |-> Fail([kind |-> "parse"]),
                      warn |-> <<>>, body |-> body]
       ELSE LET d == doRequest(resp) IN
            [sent |-> <<[method |-> "POST", url |-> b.url, form |-> merged]>>,
             got |-> <<resp>>, ret |-> d.ret, warn |-> d.warn, body |-> merged]

\* ------------------------------------------------------------------------
\* Client.GetAll
\* ------------------------------------------------------------------------
DefaultLimit == "100"

GetAllEntry_NoClone(path, params) ==
    LET q == IF ValuesGet(params, "limit") = "" THEN ValuesSet(params, "limit", DefaultLimit)
             ELSE params
    IN [p |-> q, currentPath |-> path, all |-> <<>>, caller |-> q]

\* lines 159-170: the locals before the loop, and the caller's map afterwards
GetAllEntry(path, params) ==
    LET clone == [k \in DOMAIN params |-> params[k]] IN
    [p |-> IF ValuesGet(clone, "limit") = "" THEN ValuesSet(clone, "limit", DefaultLimit) ELSE clone,
     currentPath |-> path,
     all |-> <<>>,
     caller |-> params]

\* lines 175 and 183: return nil, err
ReturnError_KeepItems(acc, err) == [ok |-> FALSE, items |-> acc, err |-> err]

ReturnError(acc, err) == [ok |-> FALSE, items |-> Null, err |-> err]

\* line 186: all = append(all, page.Data...)
AppendPage_Prepend(acc, data) == data \o acc

AppendPage(acc, data) == acc \o data

\* line 189: is this the last page
NoMorePages_IgnoreEmpty(paging) == paging = Null

NoMorePages(paging) == paging = Null \/ paging.Next = EmptyString

\* lines 172-196: one iteration of the loop when the server answers resp.
\* done tells whether GetAll returned in this iteration, and ret what.
GetAllIteration(c, curPath, curP, acc, resp) ==
    LET g == ClientGet(c, curPath, curP, resp) IN
    IF ~g.ret.ok
    THEN [sent |-> g.sent, got |-> g.got, warn |-> g.warn, done |-> TRUE,
          ret |-> ReturnError(acc, g.ret.err),
          p |-> curP, currentPath |-> curPath, all |-> acc]
    ELSE LET page == DecodePage(g.ret.body) IN
         IF page.err
         THEN [sent |-> g.sent, got |-> g.got, warn |-> g.warn, done |-> TRUE,
               ret |-> ReturnError(acc, [kind |-> "parsing page"]),
               p |-> curP, currentPath |-> curPath, all |-> acc]
         ELSE LET grown == AppendPage(acc, page.Data) IN
              IF NoMorePages(page.Paging)
              THEN [sent |-> g.sent, got |-> g.got, warn |-> g.warn, done |-> TRUE,
                    ret |-> [ok |-> TRUE, items |-> grown, err |-> Null],
                    p |-> curP, currentPath |-> curPath, all |-> grown]
              ELSE [sent |-> g.sent, got |-> g.got, warn |-> g.warn, done |-> FALSE,
                    ret |-> [ok |-> FALSE, items |-> Null, err |-> Null],
                    p |-> EmptyValues, currentPath |-> page.Paging.Next, all |-> grown]

\* ------------------------------------------------------------------------
\* The server: responses the client may receive
\* ------------------------------------------------------------------------
HMissing == [kind |-> "missing"]
HMalformed == [kind |-> "malformed"]
HUsage(entries) == [kind |-> "usage", entries |-> entries]
Usage(cc, tt) == [CallCount |-> cc, TotalTime |-> tt]

ConnFail == [kind |-> "connfail"]
ReadFail(h) == [kind |-> "readfail", header |-> h]
Response(status, h, body) == [kind |-> "http", status |-> status, header |-> h, body |-> body]

Headers == {HMissing, HMalformed, HUsage(<<Usage(75, 75)>>), HUsage(<<Usage(76, 0)>>),
            HUsage(<<Usage(10, 90), Usage(80, 77)>>)}

Statuses == {200, 400, 500}

EnvelopeFull ==
    JObj([error |-> JObj([code |-> JNum(190), message |-> JStr("Invalid token"),
                          type |-> JStr("OAuthException"), error_subcode |-> JNum(463)])])
EnvelopeNoSubcode ==
    JObj([error |-> JObj([code |-> JNum(100), message |-> JStr("Bad param")])])
ErrorIsString == JObj([error |-> JStr("boom")])
ErrorCodeIsString == JObj([error |-> JObj([code |-> JStr("190"), message |-> JStr("Invalid token")])])
ErrorIsNull == JObj([error |-> JNull, id |-> JStr("1")])
PlainObject == JObj([id |-> JStr("1"), name |-> JStr("n")])

PageBody(data, paging) == JObj([data |-> JArr(data), paging |-> paging])
PagingNext(next) == JObj([next |-> JStr(next)])
PagingNoNext == JObj([cursors |-> JObj([after |-> JStr("c")])])

\* paging.next URLs the server issues: they embed the token and the query
Cursor(after, token) ==
    FullURL("graph.facebook.com", <<"v25.0", "act_1", "campaigns">>,
            [access_token |-> token, limit |-> "25", after |-> after])

Tokens == {"tokA", "tokB"}
Secrets == {"", "sec1"}

Bodies ==
    {EnvelopeFull, EnvelopeNoSubcode, ErrorIsString, ErrorCodeIsString, ErrorIsNull,
     PlainObject, JText, JNull, JArr(<<>>),
     PageBody(<<"r1">>, PagingNext(Cursor("c1", "tokA"))), PageBody(<<"r1">>, JNull)}

Responses ==
    {ConnFail} \cup {ReadFail(h) : h \in Headers}
    \cup {Response(st, h, b) : st \in Statuses, h \in Headers, b \in Bodies}

DataArrays == {<<>>, <<"r1">>, <<"r2", "r1">>}

Pagings ==
    {JNull, PagingNoNext, PagingNext(EmptyString), PagingNext(BrokenURL),
     PagingNext(Cursor("c1", "tokA")), PagingNext(Cursor("c2", "tokB"))}

PageBodies ==
    {PageBody(d, pg) : d \in DataArrays, pg \in Pagings}
    \cup {EnvelopeFull, JText, JObj([data |-> JStr("x")])}

PageResponses ==
    {ConnFail}
    \cup {Response(st, HMissing, b) : st \in {200, 500}, b \in PageBodies}

\* ------------------------------------------------------------------------
\* package config
\* ------------------------------------------------------------------------
TokenTypeOAuth == "oauth"
TokenTypeManual == "manual"
TokenTypeLongLived == "long-lived"

EmptyConfig ==
    [AccessToken |-> "", TokenType |-> "", UserID |-> "", UserName |-> "",
     DefaultAccount |-> "", AppID |-> "", AppSecret |-> ""]

\* the JSON member of each Config field, and whether it is omitempty
ConfigMembers ==
    [AccessToken |-> "access_token", TokenType |-> "token_type", UserID |-> "user_id",
     UserName |-> "user_name", DefaultAccount |-> "default_account",
     AppID |-> "app_id", AppSecret |-> "app_secret"]

ConfigOmitEmpty == {"TokenType", "DefaultAccount", "AppID", "AppSecret"}

\* json.MarshalIndent(cfg, "", "  ")
ConfigToJSON(cfg) ==
    LET kept == {f \in DOMAIN ConfigMembers : f \notin ConfigOmitEmpty \/ cfg[f] # ""}
    IN JObj([m \in {ConfigMembers[f] : f \in kept} |->
                JStr(cfg[CHOOSE f \in kept : ConfigMembers[f] = m])])

\* json.Unmarshal(data, &cfg)
ConfigFromJSON(doc) ==
    IF doc.kind = "null" THEN [err |-> FALSE, cfg |-> EmptyConfig]
    ELSE IF doc.kind # "object" THEN [err |-> TRUE, cfg |-> Null]
    ELSE IF \E f \in DOMAIN ConfigMembers : ~JFits(doc, ConfigMembers[f], "string")
    THEN [err |-> TRUE, cfg |-> Null]
    ELSE [err |-> FALSE, cfg |-> [f \in DOMAIN ConfigMembers |-> JString(doc, ConfigMembers[f])]]

\* the config file: absent, not readable, or holding some bytes
FileMissing == [state |-> "missing"]
FileUnreadable == [state |-> "unreadable"]
FileWith(doc) == [state |-> "present", data |-> doc]

\* config.Load: (*Config, error)
Load(file) ==
    IF file.state = "missing" THEN [err |-> FALSE, cfg |-> EmptyConfig]
    ELSE IF file.state = "unreadable" THEN [err |-> TRUE, cfg |-> Null]
    ELSE ConfigFromJSON(file.data)

\* config.Save: the file afterwards, and whether Save returned an error;
\* written tells whether MkdirAll and WriteFile succeeded
Save_LeavesFile(file, cfg, written) ==
    [err |-> ~written, file |-> file]

Save(file, cfg, written) ==
    IF written THEN [err |-> FALSE, file |-> FileWith(ConfigToJSON(cfg))]
    ELSE [err |-> TRUE, file |-> file]

\* ------------------------------------------------------------------------
\* auth command: helpers
\* ------------------------------------------------------------------------
resolveAppCredentials_StoredFirst(environ, file) ==
    LET l == Load(file)
        useFile == ~l.err /\ l.cfg # Null
    IN [appID |-> IF useFile /\ l.cfg.AppID # "" THEN l.cfg.AppID
                  ELSE environ["META_APP_ID"],
        appSecret |-> IF useFile /\ l.cfg.AppSecret # "" THEN l.cfg.AppSecret
                      ELSE environ["META_APP_SECRET"]]

\* resolveAppCredentials: <<appID, appSecret>>
resolveAppCredentials(environ, file) ==
    LET envID == environ["META_APP_ID"]
        envSecret == environ["META_APP_SECRET"]
        l == Load(file)
        useFile == (envID = "" \/ envSecret = "") /\ ~l.err /\ l.cfg # Null
    IN [appID |-> IF envID = "" /\ useFile THEN l.cfg.AppID ELSE envID,
        appSecret |-> IF envSecret = "" /\ useFile THEN l.cfg.AppSecret ELSE envSecret]

\* fmt.Sprintf("http://127.0.0.1:%d/callback", port)
RedirectURI(port) == [scheme |-> "http", host |-> "127.0.0.1", port |-> FormatInt(port),
                      path |-> "/callback"]

metaDialogURL == "https://www.facebook.com/v25.0/dialog/oauth"
metaTokenURL == "https://graph.facebook.com/v25.0/oauth/access_token"
metaExchangeURL == "https://graph.facebook.com/v25.0/oauth/access_token"
metaMeURL == "https://graph.facebook.com/v25.0/me"

OAuthScope == "ads_management,ads_read,business_management"

buildAuthURL(id, redirectURI) ==
    [endpoint |-> metaDialogURL,
     params |-> [client_id |-> id, redirect_uri |-> redirectURI, scope |-> OAuthScope,
                 response_type |-> "code"]]

exchangeCode_NoRedirect(code, id, secret, redirectURI) ==
    [endpoint |-> metaTokenURL,
     params |-> [client_id |-> id, client_secret |-> secret, code |-> code]]

\* exchangeCode: the URL it fetches
exchangeCode(code, id, secret, redirectURI) ==
    [endpoint |-> metaTokenURL,
     params |-> [client_id |-> id, client_secret |-> secret, redirect_uri |-> redirectURI,
                 code |-> code]]

\* exchangeToLongLived: the URL it fetches
exchangeToLongLived(shortTok, id, secret) ==
    [endpoint |-> metaExchangeURL,
     params |-> [grant_type |-> "fb_exchange_token", client_id |-> id,
                 client_secret |-> secret, fb_exchange_token |-> shortTok]]

\* metaTokenFetch: what it returns for a response (the HTTP status is not read)
metaTokenFetch(resp) ==
    IF resp.kind # "http" THEN [ok |-> FALSE, token |-> "", err |-> [kind |-> "transport"]]
    ELSE LET b == resp.body IN
         IF \/ b.kind \notin {"object", "null"}
            \/ b.kind = "object" /\ ~JFits(b, "access_token", "string")
            \/ b.kind = "object" /\ ~JFits(b, "error", "object")
            \/ b.kind = "object" /\ JHas(b, "error")
                 /\ JFits(b, "error", "object")
                 /\ ~JFits(b.members["error"], "message", "string")
         THEN [ok |-> FALSE, token |-> "", err |-> [kind |-> "parsing token response"]]
         ELSE IF b.kind = "object" /\ JHas(b, "error")
         THEN [ok |-> FALSE, token |-> "",
               err |-> [kind |-> "meta api error",
                        message |-> JString(b.members["error"], "message")]]
         ELSE IF b.kind = "null" \/ JString(b, "access_token") = ""
         THEN [ok |-> FALSE, token |-> "", err |-> [kind |-> "no access_token in response"]]
         ELSE [ok |-> TRUE, token |-> JString(b, "access_token"), err |-> Null]

\* fetchMe: the URL it fetches
fetchMeURL(token) ==
    [endpoint |-> metaMeURL, params |-> [access_token |-> token, fields |-> "id,name"]]

\* fetchMe: what it returns for a response
fetchMe(resp) ==
    IF resp.kind # "http" THEN [ok |-> FALSE, id |-> "", name |-> "", err |-> [kind |-> "transport"]]
    ELSE LET b == resp.body IN
         IF \/ b.kind \notin {"object", "null"}
            \/ b.kind = "object" /\ ~JFits(b, "id", "string")
            \/ b.kind = "object" /\ ~JFits(b, "name", "string")
            \/ b.kind = "object" /\ ~JFits(b, "error", "object")
            \/ b.kind = "object" /\ JHas(b, "error")
                 /\ JFits(b, "error", "object")
                 /\ ~JFits(b.members["error"], "message", "string")
         THEN [ok |-> FALSE, id |-> "", name |-> "", err |-> [kind |-> "parsing /me response"]]
         ELSE IF b.kind = "object" /\ JHas(b, "error")
         THEN [ok |-> FALSE, id |-> "", name |-> "",
               err |-> [kind |-> "meta api error",
                        message |-> JString(b.members["error"], "message")]]
         ELSE IF b.kind = "null" THEN [ok |-> TRUE, id |-> "", name |-> "", err |-> Null]
         ELSE [ok |-> TRUE, id |-> JString(b, "id"), name |-> JString(b, "name"), err |-> Null]

\* ------------------------------------------------------------------------
\* auth login: the callback handler and the wait
\* ------------------------------------------------------------------------
OAuthError(errMsg, desc) == [kind |-> "OAuth error", error |-> errMsg, description |-> desc]
NoCodeError == [kind |-> "no code returned in callback"]
ServeError == [kind |-> "callback server error"]
TimeoutError == [kind |-> "timed out waiting for OAuth callback (5 minutes)"]
Wrap(msg, err) == [kind |-> msg, cause |-> err]

ChanCap == 1      \* make(chan string, 1), make(chan error, 1)

\* the /callback handler: the channel it sends on and the value sent
CallbackHandler_CodeFirst(q) ==
    IF ValuesGet(q, "code") # ""
    THEN [ch |-> "code", val |-> ValuesGet(q, "code")]
    ELSE IF ValuesGet(q, "error") # ""
    THEN [ch |-> "err", val |-> OAuthError(ValuesGet(q, "error"), ValuesGet(q, "error_description"))]
    ELSE [ch |-> "err", val |-> NoCodeError]

CallbackHandler(q) ==
    IF ValuesGet(q, "error") # ""
    THEN [ch |-> "err", val |-> OAuthError(ValuesGet(q, "error"), ValuesGet(q, "error_description"))]
    ELSE IF ValuesGet(q, "code") = ""
    THEN [ch |-> "err", val |-> NoCodeError]
    ELSE [ch |-> "code", val |-> ValuesGet(q, "code")]

WaitOutcome_TimeoutLeaks(selected) ==
    IF selected.case = "code"
    THEN [shutdown |-> TRUE, returns |-> FALSE, err |-> Null]
    ELSE IF selected.case = "err"
    THEN [shutdown |-> TRUE, returns |-> TRUE, err |-> selected.val]
    ELSE [shutdown |-> FALSE, returns |-> TRUE, err |-> TimeoutError]

WaitOutcome_ErrorLeaks(selected) ==
    IF selected.case = "code"
    THEN [shutdown |-> TRUE, returns |-> FALSE, err |-> Null]
    ELSE IF selected.case = "err"
    THEN [shutdown |-> FALSE, returns |-> TRUE, err |-> selected.val]
    ELSE [shutdown |-> TRUE, returns |-> TRUE, err |-> TimeoutError]

WaitOutcome_ErrorContinues(selected) ==
    IF selected.case \in {"code", "err"}
    THEN [shutdown |-> TRUE, returns |-> FALSE, err |-> Null]
    ELSE [shutdown |-> TRUE, returns |-> TRUE, err |-> TimeoutError]

\* lines 354-363: what the flow does with the case the select took
WaitOutcome(selected) ==
    IF selected.case = "code"
    THEN [shutdown |-> TRUE, returns |-> FALSE, err |-> Null]
    ELSE IF selected.case = "err"
    THEN [shutdown |-> TRUE, returns |-> TRUE, err |-> selected.val]
    ELSE [shutdown |-> TRUE, returns |-> TRUE, err |-> TimeoutError]

\* ------------------------------------------------------------------------
\* Token resolution (cmd/root.go) and the shared meta-auth config
\* ------------------------------------------------------------------------
\* the meta-auth config file: absent, not readable, or holding a token with
\* its expiry
SharedMissing == [state |-> "missing"]
SharedUnreadable == [state |-> "unreadable"]
SharedWith(token, expired, days) ==
    [state |-> "present", token |-> token, expired |-> expired, days |-> days]

\* metaauth.Token: (string, error)
metaauthToken(shared) ==
    IF shared.state = "missing" THEN [err |-> FALSE, token |-> ""]
    ELSE IF shared.state = "unreadable" THEN [err |-> TRUE, token |-> ""]
    ELSE [err |-> FALSE, token |-> shared.token]

ExpiryWarnDays == 7

\* warnSharedExpiry: the warnings it writes
warnSharedExpiry(shared) ==
    IF shared.expired THEN <<"meta-auth token has expired">>
    ELSE IF shared.days >= 0 /\ shared.days <= ExpiryWarnDays
    THEN <<"meta-auth token expires in", shared.days>>
    ELSE <<>>

Resolved(token, secret, loaded, warn) ==
    [ok |-> TRUE, token |-> token, appSecret |-> secret, err |-> Null, cfg |-> loaded,
     warn |-> warn]

NotResolved(kind, loaded) ==
    [ok |-> FALSE, token |-> "", appSecret |-> "", err |-> [kind |-> kind], cfg |-> loaded,
     warn |-> <<>>]

NotAuthenticated == "not authenticated"

resolveToken_ConfigFirst(env, file, shared) ==
    LET l == Load(file) IN
    IF ~l.err /\ l.cfg.AccessToken # ""
    THEN Resolved(l.cfg.AccessToken,
                  IF l.cfg.AppSecret = "" THEN env["META_APP_SECRET"] ELSE l.cfg.AppSecret,
                  l.cfg, <<>>)
    ELSE IF env["META_TOKEN"] # ""
    THEN Resolved(env["META_TOKEN"], env["META_APP_SECRET"], Null, <<>>)
    ELSE IF l.err THEN NotResolved("failed to load config", Null)
    ELSE LET sh == metaauthToken(shared) IN
         IF sh.err THEN NotResolved("failed to read meta-auth config", l.cfg)
         ELSE IF sh.token # ""
         THEN Resolved(sh.token, env["META_APP_SECRET"], l.cfg, warnSharedExpiry(shared))
         ELSE NotResolved(NotAuthenticated, l.cfg)

resolveToken_StoredSecretForEnvToken(env, file, shared) ==
    IF env["META_TOKEN"] # ""
    THEN Resolved(env["META_TOKEN"],
                  IF ~Load(file).err /\ Load(file).cfg.AppSecret # ""
                  THEN Load(file).cfg.AppSecret ELSE env["META_APP_SECRET"],
                  Null, <<>>)
    ELSE LET l == Load(file) IN
         IF l.err THEN NotResolved("failed to load config", Null)
         ELSE IF l.cfg.AccessToken # ""
         THEN Resolved(l.cfg.AccessToken,
                       IF l.cfg.AppSecret = "" THEN env["META_APP_SECRET"] ELSE l.cfg.AppSecret,
                       l.cfg, <<>>)
         ELSE LET sh == metaauthToken(shared) IN
              IF sh.err THEN NotResolved("failed to read meta-auth config", l.cfg)
              ELSE IF sh.token # ""
              THEN Resolved(sh.token, env["META_APP_SECRET"], l.cfg, warnSharedExpiry(shared))
              ELSE NotResolved(NotAuthenticated, l.cfg)

resolveToken_EmptyStoredToken(env, file, shared) ==
    IF env["META_TOKEN"] # ""
    THEN Resolved(env["META_TOKEN"], env["META_APP_SECRET"], Null, <<>>)
    ELSE LET l == Load(file) IN
         IF l.err THEN NotResolved("failed to load config", Null)
         ELSE IF file.state = "present"
         THEN Resolved(l.cfg.AccessToken,
                       IF l.cfg.AppSecret = "" THEN env["META_APP_SECRET"] ELSE l.cfg.AppSecret,
                       l.cfg, <<>>)
         ELSE LET sh == metaauthToken(shared) IN
              IF sh.err THEN NotResolved("failed to read meta-auth config", l.cfg)
              ELSE IF sh.token # ""
              THEN Resolved(sh.token, env["META_APP_SECRET"], l.cfg, warnSharedExpiry(shared))
              ELSE NotResolved(NotAuthenticated, l.cfg)

\* resolveToken: (token, appSecret, error), the value it leaves in the
\* global cfg, and the warnings it writes
resolveToken(env, file, shared) ==
    IF env["META_TOKEN"] # ""
    THEN Resolved(env["META_TOKEN"], env["META_APP_SECRET"], Null, <<>>)
    ELSE LET l == Load(file) IN
         IF l.err THEN NotResolved("failed to load config", Null)
         ELSE IF l.cfg.AccessToken # ""
         THEN Resolved(l.cfg.AccessToken,
                       IF l.cfg.AppSecret = "" THEN env["META_APP_SECRET"] ELSE l.cfg.AppSecret,
                       l.cfg, <<>>)
         ELSE LET sh == metaauthToken(shared) IN
              IF sh.err THEN NotResolved("failed to read meta-auth config", l.cfg)
              ELSE IF sh.token # ""
              THEN Resolved(sh.token, env["META_APP_SECRET"], l.cfg, warnSharedExpiry(shared))
              ELSE NotResolved(NotAuthenticated, l.cfg)

ActPrefix == "act_"

\* strings.HasPrefix
HasPrefix(str, prefix) ==
    Len(str) >= Len(prefix) /\ SubSeq(str, 1, Len(prefix)) = prefix

\* api.NormalizeAccountID
NormalizeAccountID(id) == IF HasPrefix(id, ActPrefix) THEN id ELSE ActPrefix \o id

NoAccountError == [kind |-> "no account specified"]

\* resolveAccount: (string, error) for the flag, the environment and the
\* global cfg
resolveAccount(flag, env, c) ==
    IF flag # "" THEN [ok |-> TRUE, id |-> NormalizeAccountID(flag), err |-> Null]
    ELSE IF env["META_ADS_ACCOUNT"] # ""
    THEN [ok |-> TRUE, id |-> NormalizeAccountID(env["META_ADS_ACCOUNT"]), err |-> Null]
    ELSE IF c # Null /\ c.DefaultAccount # ""
    THEN [ok |-> TRUE, id |-> NormalizeAccountID(c.DefaultAccount), err |-> Null]
    ELSE [ok |-> FALSE, id |-> "", err |-> NoAccountError]

\* ------------------------------------------------------------------------
\* State of a command that uses the API client
\* ------------------------------------------------------------------------
VARIABLES
    client,        \* the api.Client built by PersistentPreRunE
    calls,         \* the client operations called so far
    requests,      \* the HTTP requests sent so far
    responses,     \* the responses received by the operation in progress
    stderr,        \* the warnings the operation in progress wrote
    result,        \* what the last operation returned
    callerParams,  \* the caller's url.Values after the last operation
    pc,            \* "idle", "paging" (inside the GetAll loop), "returned"
    p,             \* GetAll: local params
    currentPath,   \* GetAll: current path
    all            \* GetAll: accumulated items

clientVars == <<client, calls, requests, responses, stderr, result, callerParams,
                pc, p, currentPath, all>>

\* ------------------------------------------------------------------------
\* State of the auth login command
\* ------------------------------------------------------------------------
VARIABLES
    environ,      \* the environment variables
    cfgFile,      \* the config file
    cfgFile0,     \* the config file when the command started
    lpc,          \* position of runAuthLogin
    creds,        \* appID, appSecret
    listener,     \* "none", "open", "closed"
    serving,      \* srv.Serve is accepting connections
    port,         \* the port of the listener
    codeCh,       \* buffer of codeCh
    errCh,        \* buffer of errCh
    blocked,      \* sends of handler goroutines blocked on a full channel
    selected,     \* the case the select took and the value received
    events,       \* callbacks, server failures and the select, in order
    shutdowns,    \* calls of shutdownServer
    browser,      \* the URL given to openBrowser
    httpLog,      \* URLs fetched from the token and identity endpoints
    httpReplies,  \* the response to each of them
    command,      \* the auth command run, its argument and flags
    finalToken,   \* the local finalToken of runAuthSetToken
    tokenType,    \* the local tokenType of runAuthSetToken
    printed,      \* what an auth command wrote to stdout and stderr
    shortToken,
    longToken,
    loginResult   \* what runAuthLogin returned

loginVars == <<environ, cfgFile, cfgFile0, lpc, creds, listener, serving, port, codeCh, errCh,
               blocked, selected, events, shutdowns, browser, httpLog, httpReplies, command,
               finalToken, tokenType, printed, shortToken, longToken, loginResult>>

\* ------------------------------------------------------------------------
\* State of PersistentPreRunE
\* ------------------------------------------------------------------------
VARIABLES
    sharedFile,   \* the meta-auth config file
    globalCfg,    \* the package variable cfg
    resolved,     \* what resolveToken returned
    rpc,          \* "start", "ready" (client built), "failed", "auth" (auth command),
                  \* "account" (resolveAccount returned)
    accountFlag,  \* the --account flag
    accountResult \* what resolveAccount returned

resolveVars == <<sharedFile, globalCfg, resolved, rpc, accountFlag, accountResult>>

NoAccount == [ok |-> FALSE, id |-> "", err |-> Null]

vars == <<clientVars, loginVars, resolveVars>>

NoResolved == [ok |-> FALSE, token |-> "", appSecret |-> "", err |-> Null]

\* PersistentPreRunE is not looked at
NoResolve ==
    /\ sharedFile = SharedMissing
    /\ globalCfg = Null
    /\ resolved = NoResolved
    /\ rpc = "none"
    /\ accountFlag = ""
    /\ accountResult = NoAccount

NoEnviron == [META_APP_ID |-> "", META_APP_SECRET |-> "", META_TOKEN |-> "",
              META_ADS_ACCOUNT |-> ""]

\* args[0], --no-extend and --save of the auth commands
Command(name, token, noExtend, save) ==
    [name |-> name, token |-> token, authSetTokenNoExtend |-> noExtend,
     authExtendTokenSave |-> save]

NoCommand == Command("none", "", FALSE, FALSE)

NoSelection == [case |-> "none", val |-> Null]

NoLoginResult == [ok |-> FALSE, err |-> Null]

\* the locals of runAuthLogin before it runs
LoginLocals ==
    /\ creds = [appID |-> "", appSecret |-> ""]
    /\ listener = "none"
    /\ serving = FALSE
    /\ port = 0
    /\ codeCh = <<>>
    /\ errCh = <<>>
    /\ blocked = <<>>
    /\ selected = NoSelection
    /\ events = <<>>
    /\ shutdowns = 0
    /\ browser = Null
    /\ httpLog = <<>>
    /\ httpReplies = <<>>
    /\ finalToken = ""
    /\ tokenType = ""
    /\ printed = <<>>
    /\ shortToken = ""
    /\ longToken = ""
    /\ loginResult = NoLoginResult

\* a command other than auth login: runAuthLogin never runs
NoLogin ==
    /\ environ = NoEnviron
    /\ cfgFile = FileMissing
    /\ cfgFile0 = FileMissing
    /\ lpc = "none"
    /\ command = NoCommand
    /\ LoginLocals

NoResult == [ok |-> FALSE, items |-> Null, err |-> Null]

InitClient ==
    /\ NoLogin
    /\ NoResolve
    /\ client \in {NewClient(t, s) : t \in Tokens, s \in Secrets}
    /\ calls = <<>>
    /\ requests = <<>>
    /\ responses = <<>>
    /\ stderr = <<>>
    /\ result = NoResult
    /\ callerParams = EmptyValues
    /\ pc = "idle"
    /\ p = EmptyValues
    /\ currentPath = EmptyString
    /\ all = <<>>

Paths == {RelPath(<<"act_1", "campaigns">>), RelPath(<<"120">>)}

GetParams == {[fields |-> "id,name"], [fields |-> "id,name", limit |-> "25"]}

PostBodies == {[status |-> "PAUSED"]}

\* a command calling client.Get once (runCampaignsGet and the like)
Get(path, params, resp) ==
    /\ pc = "idle"
    /\ LET g == ClientGet(client, path, params, resp) IN
       /\ calls' = Append(calls, [op |-> "Get", path |-> path, params |-> params])
       /\ requests' = requests \o g.sent
       /\ responses' = g.got
       /\ stderr' = g.warn
       /\ result' = g.ret
       /\ callerParams' = params
    /\ pc' = "returned"
    /\ UNCHANGED <<client, p, currentPath, all>>
    /\ UNCHANGED <<loginVars, resolveVars>>

\* a command calling client.Post once (runCampaignsUpdate and the like)
Post(path, body, resp) ==
    /\ pc = "idle"
    /\ LET g == ClientPost(client, path, body, resp) IN
       /\ calls' = Append(calls, [op |-> "Post", path |-> path, params |-> body])
       /\ requests' = requests \o g.sent
       /\ responses' = g.got
       /\ stderr' = g.warn
       /\ result' = g.ret
       /\ callerParams' = g.body
    /\ pc' = "returned"
    /\ UNCHANGED <<client, p, currentPath, all>>
    /\ UNCHANGED <<loginVars, resolveVars>>

NextRequest ==
    \/ \E path \in Paths, params \in GetParams, resp \in Responses : Get(path, params, resp)
    \/ \E path \in Paths, body \in PostBodies, resp \in Responses : Post(path, body, resp)

SpecRequest == InitClient /\ [][NextRequest]_vars

\* ------------------------------------------------------------------------
\* List commands
\* ------------------------------------------------------------------------
\* Client.GetAll up to the loop
GetAllBegin(path, params) ==
    /\ pc = "idle"
    /\ calls = <<>>
    /\ LET e == GetAllEntry(path, params) IN
       /\ p' = e.p
       /\ currentPath' = e.currentPath
       /\ all' = e.all
       /\ callerParams' = e.caller
    /\ calls' = Append(calls, [op |-> "GetAll", path |-> path, params |-> params])
    /\ pc' = "paging"
    /\ UNCHANGED <<client, requests, responses, stderr, result>>
    /\ UNCHANGED <<loginVars, resolveVars>>

\* one iteration of the GetAll loop
GetAllPage(resp) ==
    /\ pc = "paging"
    /\ Len(requests) < MaxPages
    /\ LET it == GetAllIteration(client, currentPath, p, all, resp) IN
       /\ requests' = requests \o it.sent
       /\ responses' = responses \o it.got
       /\ stderr' = stderr \o it.warn
       /\ p' = it.p
       /\ currentPath' = it.currentPath
       /\ all' = it.all
       /\ result' = it.ret
       /\ pc' = IF it.done THEN "returned" ELSE "paging"
    /\ UNCHANGED <<client, calls, callerParams>>
    /\ UNCHANGED <<loginVars, resolveVars>>

\* json.Unmarshal(body, &page) with page struct{ Data []json.RawMessage }
DecodeData(body) ==
    IF body.kind = "text" THEN [err |-> TRUE, Data |-> <<>>]
    ELSE IF body.kind = "null" THEN [err |-> FALSE, Data |-> <<>>]
    ELSE IF body.kind # "object" THEN [err |-> TRUE, Data |-> <<>>]
    ELSE [err |-> ~JFits(body, "data", "array"),
          Data |-> IF JFits(body, "data", "array") /\ JHas(body, "data")
                   THEN body.members["data"].items ELSE <<>>]

CampaignFields == "id,name,status,effective_status,objective"

\* fmt.Sprintf(`["%s"]`, s)
FormatStatusFilter(s) == ToString(<<s>>)

\* runCampaignsList lines 174-182: the parameters of the list request
CampaignsListParams(campaignStatusFilter, campaignLimit) ==
    LET p0 == ValuesSet(EmptyValues, "fields", CampaignFields)
        p1 == IF campaignStatusFilter # ""
              THEN ValuesSet(p0, "effective_status", FormatStatusFilter(campaignStatusFilter))
              ELSE p0
    IN IF campaignLimit > 0 THEN ValuesSet(p1, "limit", FormatInt(campaignLimit)) ELSE p1

CampaignsListSinglePage_Above1(campaignLimit) == campaignLimit > 1

\* runCampaignsList lines 186-206: does the command fetch a single page
CampaignsListSinglePage(campaignLimit) == campaignLimit > 0

\* runCampaignsList lines 187-200: the single page fetch
CampaignsListFetchOne(c, path, params, campaignLimit, resp) ==
    LET capped == ValuesSet(params, "limit", FormatInt(campaignLimit))
        g == ClientGet(c, path, capped, resp)
    IN IF ~g.ret.ok
       THEN [sent |-> g.sent, got |-> g.got, warn |-> g.warn, caller |-> capped,
             ret |-> [ok |-> FALSE, items |-> Null, err |-> g.ret.err]]
       ELSE LET page == DecodeData(g.ret.body) IN
            IF page.err
            THEN [sent |-> g.sent, got |-> g.got, warn |-> g.warn, caller |-> capped,
                  ret |-> [ok |-> FALSE, items |-> Null, err |-> [kind |-> "parsing response"]]]
            ELSE [sent |-> g.sent, got |-> g.got, warn |-> g.warn, caller |-> capped,
                  ret |-> [ok |-> TRUE, items |-> page.Data, err |-> Null]]

\* meta-ads campaigns list [--status S] [--limit N]
CampaignsList(account, campaignStatusFilter, campaignLimit, resp) ==
    /\ pc = "idle"
    /\ calls = <<>>
    /\ LET params == CampaignsListParams(campaignStatusFilter, campaignLimit)
           path == RelPath(<<account, "campaigns">>)
       IN /\ calls' = Append(calls, [op |-> "CampaignsList", path |-> path,
                                     params |-> params, limit |-> campaignLimit])
          /\ IF CampaignsListSinglePage(campaignLimit)
             THEN LET f == CampaignsListFetchOne(client, path, params, campaignLimit, resp) IN
                  /\ requests' = requests \o f.sent
                  /\ responses' = responses \o f.got
                  /\ stderr' = stderr \o f.warn
                  /\ result' = f.ret
                  /\ callerParams' = f.caller
                  /\ pc' = "returned"
                  /\ UNCHANGED <<p, currentPath, all>>
             ELSE LET e == GetAllEntry(path, params) IN
                  /\ p' = e.p
                  /\ currentPath' = e.currentPath
                  /\ all' = e.all
                  /\ callerParams' = e.caller
                  /\ pc' = "paging"
                  /\ UNCHANGED <<requests, responses, stderr, result>>
    /\ UNCHANGED client
    /\ UNCHANGED <<loginVars, resolveVars>>

Accounts == {"act_1"}
StatusFilters == {"", "ACTIVE"}
Limits == {-1, 0, 1, 25}

NextPaging ==
    \/ \E path \in Paths, params \in GetParams : GetAllBegin(path, params)
    \/ \E a \in Accounts, f \in StatusFilters, n \in Limits, resp \in PageResponses :
          CampaignsList(a, f, n, resp)
    \/ \E resp \in PageResponses : GetAllPage(resp)

SpecPaging == InitClient /\ [][NextPaging]_vars

\* ------------------------------------------------------------------------
\* auth login
\* ------------------------------------------------------------------------
MaxCallbacks == 2     \* requests the callback endpoint receives in one login

StoredConfig ==
    [AccessToken |-> "tok_old", TokenType |-> TokenTypeManual, UserID |-> "u0",
     UserName |-> "Old", DefaultAccount |-> "act_9", AppID |-> "id_cfg",
     AppSecret |-> "sec_cfg"]

ConfigFiles ==
    {FileMissing, FileUnreadable, FileWith(JText), FileWith(ConfigToJSON(StoredConfig)),
     FileWith(ConfigToJSON([StoredConfig EXCEPT !.AppSecret = ""]))}

Environs ==
    {[NoEnviron EXCEPT !["META_APP_ID"] = i, !["META_APP_SECRET"] = x] :
        i \in {"", "id_env"}, x \in {"", "sec_env"}}

Ports == {49152, 50001}

CallbackQueries ==
    {[code |-> "abc123"], [code |-> "xyz789"],
     [error |-> "access_denied", error_description |-> "User denied"],
     [error |-> "access_denied", code |-> "abc123"],
     EmptyValues}

IssuedTokens == {"tok1", "tok2"}

TokenResponses ==
    {ConnFail, Response(200, HMissing, JText),
     Response(400, HMissing, JObj([error |-> JObj([message |-> JStr("Invalid code")])])),
     Response(200, HMissing, PlainObject)}
    \cup {Response(200, HMissing, JObj([access_token |-> JStr(t)])) : t \in IssuedTokens}

MeResponses ==
    {ConnFail, Response(200, HMissing, JText),
     Response(400, HMissing, JObj([error |-> JObj([message |-> JStr("Expired")])])),
     Response(200, HMissing, JObj([id |-> JStr("u1"), name |-> JStr("Ann")])),
     Response(200, HMissing, JObj([data |-> JArr(<<>>)]))}

ClientUnused ==
    /\ client = Null
    /\ calls = <<>>
    /\ requests = <<>>
    /\ responses = <<>>
    /\ stderr = <<>>
    /\ result = NoResult
    /\ callerParams = EmptyValues
    /\ pc = "none"
    /\ p = EmptyValues
    /\ currentPath = EmptyString
    /\ all = <<>>

InitLogin ==
    /\ ClientUnused
    /\ NoResolve
    /\ environ \in Environs
    /\ cfgFile \in ConfigFiles
    /\ cfgFile0 = cfgFile
    /\ lpc = "start"
    /\ command = Command("login", "", FALSE, FALSE)
    /\ LoginLocals

Buffer(ch) == IF ch = "code" THEN codeCh ELSE errCh

\* the first blocked send on channel ch, 0 when there is none
FirstBlocked(ch) ==
    IF \E i \in 1..Len(blocked) : blocked[i].ch = ch
    THEN CHOOSE i \in 1..Len(blocked) :
            blocked[i].ch = ch /\ \A j \in 1..(i - 1) : blocked[j].ch # ch
    ELSE 0

Without(seq, i) == SubSeq(seq, 1, i - 1) \o SubSeq(seq, i + 1, Len(seq))

LoginCredentialError_SecretUnchecked(c) ==
    IF c.appID = "" THEN [kind |-> "META_APP_ID not set"] ELSE Null

\* lines 291-298: the error for a missing app credential, Null when both are set
LoginCredentialError(c) ==
    IF c.appID = "" THEN [kind |-> "META_APP_ID not set"]
    ELSE IF c.appSecret = "" THEN [kind |-> "META_APP_SECRET not set"]
    ELSE Null

\* lines 289-343: credentials, listener, callback server
LoginStart(listenOK, prt) ==
    /\ lpc = "start"
    /\ command.name = "login"
    /\ LET c == resolveAppCredentials(environ, cfgFile) IN
       /\ creds' = c
       /\ IF LoginCredentialError(c) # Null
          THEN /\ loginResult' = Fail(LoginCredentialError(c))
               /\ lpc' = "failed"
               /\ UNCHANGED <<listener, serving, port>>
          ELSE IF ~listenOK
          THEN /\ loginResult' = Fail([kind |-> "failed to find free port"])
               /\ lpc' = "failed"
               /\ UNCHANGED <<listener, serving, port>>
          ELSE /\ listener' = "open"
               /\ serving' = TRUE
               /\ port' = prt
               /\ lpc' = "serving"
               /\ UNCHANGED loginResult
    /\ UNCHANGED <<environ, cfgFile, cfgFile0, codeCh, errCh, blocked, selected, events,
                   shutdowns, browser, httpLog, httpReplies, command, finalToken, tokenType, printed,
                   shortToken, longToken>>
    /\ UNCHANGED <<clientVars, resolveVars>>

\* lines 345-350: authorize URL, browser
OpenBrowser ==
    /\ lpc = "serving"
    /\ browser' = buildAuthURL(creds.appID, RedirectURI(port))
    /\ lpc' = "select"
    /\ UNCHANGED <<environ, cfgFile, cfgFile0, creds, listener, serving, port, codeCh, errCh,
                   blocked, selected, events, shutdowns, httpLog, httpReplies, command, finalToken, tokenType, printed,
                   shortToken, longToken,
                   loginResult>>
    /\ UNCHANGED <<clientVars, resolveVars>>

\* a channel send by a goroutine while the flow is at position lpc: handed to
\* the flow when it is parked in the select, else buffered when the buffer
\* has room, else (full) the sender blocks, or drops the value when the send
\* is the non-blocking one of the Serve goroutine
ChanSend(ch, val, blocking) ==
    IF lpc = "parked"
    THEN /\ selected' = [case |-> ch, val |-> val]
         /\ lpc' = "selected"
         /\ UNCHANGED <<codeCh, errCh, blocked>>
    ELSE IF Len(Buffer(ch)) < ChanCap
    THEN /\ codeCh' = IF ch = "code" THEN Append(codeCh, val) ELSE codeCh
         /\ errCh' = IF ch = "err" THEN Append(errCh, val) ELSE errCh
         /\ UNCHANGED <<selected, lpc, blocked>>
    ELSE /\ blocked' = IF blocking THEN Append(blocked, [ch |-> ch, val |-> val]) ELSE blocked
         /\ UNCHANGED <<selected, lpc, codeCh, errCh>>

\* the select event, when a send wakes the parked flow
HandedOver(ch) == IF lpc = "parked" THEN <<[ev |-> "select", case |-> ch]>> ELSE <<>>

NumCallbacks == Cardinality({i \in 1..Len(events) : events[i].ev = "callback"})

\* lines 313-333: the browser (or anyone) requests /callback?q
Callback(q) ==
    /\ serving
    /\ NumCallbacks < MaxCallbacks
    /\ LET m == CallbackHandler(q) IN ChanSend(m.ch, m.val, TRUE)
    /\ events' = events \o <<[ev |-> "callback", q |-> q]>> \o HandedOver(CallbackHandler(q).ch)
    /\ UNCHANGED <<environ, cfgFile, cfgFile0, creds, listener, serving, port, shutdowns,
                   browser, httpLog, httpReplies, command, finalToken, tokenType, printed,
                   shortToken, longToken, loginResult>>
    /\ UNCHANGED <<clientVars, resolveVars>>

\* lines 336-343: srv.Serve returns an error other than ErrServerClosed
ServeFails ==
    /\ serving
    /\ serving' = FALSE
    /\ ChanSend("err", ServeError, FALSE)
    /\ events' = events \o <<[ev |-> "servefail"]>> \o HandedOver("err")
    /\ UNCHANGED <<environ, cfgFile, cfgFile0, creds, listener, port, shutdowns,
                   browser, httpLog, httpReplies, command, finalToken, tokenType, printed,
                   shortToken, longToken, loginResult>>
    /\ UNCHANGED <<clientVars, resolveVars>>

\* line 354: the flow enters the select; the timer starts now, so only the
\* two channels can be ready; with none ready the flow parks
SelectEnter ==
    /\ lpc = "select"
    /\ IF codeCh = <<>> /\ errCh = <<>>
       THEN /\ lpc' = "parked"
            /\ UNCHANGED <<codeCh, errCh, blocked, selected, events>>
       ELSE \E ch \in {"code", "err"} :
               /\ Buffer(ch) # <<>>
               /\ selected' = [case |-> ch, val |-> Head(Buffer(ch))]
               /\ LET i == FirstBlocked(ch)
                      refill == IF i = 0 THEN <<>> ELSE <<blocked[i].val>>
                  IN /\ codeCh' = IF ch = "code" THEN Tail(codeCh) \o refill ELSE codeCh
                     /\ errCh' = IF ch = "err" THEN Tail(errCh) \o refill ELSE errCh
                     /\ blocked' = IF i = 0 THEN blocked ELSE Without(blocked, i)
               /\ events' = Append(events, [ev |-> "select", case |-> ch])
               /\ lpc' = "selected"
    /\ UNCHANGED <<environ, cfgFile, cfgFile0, creds, listener, serving, port, shutdowns,
                   browser, httpLog, httpReplies, command, finalToken, tokenType, printed,
                   shortToken, longToken, loginResult>>
    /\ UNCHANGED <<clientVars, resolveVars>>

\* line 359: five minutes pass with the flow parked
Deadline ==
    /\ lpc = "parked"
    /\ selected' = [case |-> "timeout", val |-> Null]
    /\ events' = Append(events, [ev |-> "select", case |-> "timeout"])
    /\ lpc' = "selected"
    /\ UNCHANGED <<environ, cfgFile, cfgFile0, creds, listener, serving, port, codeCh, errCh,
                   blocked, shutdowns, browser, httpLog, httpReplies, command, finalToken, tokenType, printed,
                   shortToken, longToken, loginResult>>
    /\ UNCHANGED <<clientVars, resolveVars>>

\* lines 355-363: the branch of the select that was taken
AfterSelect ==
    /\ lpc = "selected"
    /\ LET o == WaitOutcome(selected) IN
       /\ listener' = IF o.shutdown THEN "closed" ELSE listener
       /\ serving' = IF o.shutdown THEN FALSE ELSE serving
       /\ shutdowns' = IF o.shutdown THEN shutdowns + 1 ELSE shutdowns
       /\ lpc' = IF o.returns THEN "failed" ELSE "exchangeCode"
       /\ loginResult' = IF o.returns THEN Fail(o.err) ELSE loginResult
    /\ UNCHANGED <<environ, cfgFile, cfgFile0, creds, port, codeCh, errCh, blocked, selected,
                   events, browser, httpLog, httpReplies, command, finalToken, tokenType, printed,
                   shortToken, longToken>>
    /\ UNCHANGED <<clientVars, resolveVars>>

AfterStep_Continues(r, msg, next, res) == [lpc |-> next, result |-> res]

\* "if err != nil { return fmt.Errorf(msg, err) }" after a step of an auth
\* command: where the command goes and what it has returned
AfterStep(r, msg, next, res) ==
    IF r.ok THEN [lpc |-> next, result |-> res]
    ELSE [lpc |-> "failed", result |-> Fail(Wrap(msg, r.err))]

\* lines 365-370: code -> short-lived token
ExchangeCode(resp) ==
    /\ lpc = "exchangeCode"
    /\ httpLog' = Append(httpLog, exchangeCode(selected.val, creds.appID, creds.appSecret,
                                               RedirectURI(port)))
    /\ httpReplies' = Append(httpReplies, resp)
    /\ UNCHANGED <<command, finalToken, tokenType, printed>>
    /\ LET r == metaTokenFetch(resp)
           a == AfterStep(r, "failed to exchange code", "exchangeLong", loginResult)
       IN /\ shortToken' = IF a.lpc = "failed" THEN shortToken ELSE r.token
          /\ lpc' = a.lpc
          /\ loginResult' = a.result
    /\ UNCHANGED <<environ, cfgFile, cfgFile0, creds, listener, serving, port, codeCh, errCh,
                   blocked, selected, events, shutdowns, browser, longToken>>
    /\ UNCHANGED <<clientVars, resolveVars>>

\* lines 372-377: short-lived -> long-lived token
ExchangeLongLived(resp) ==
    /\ lpc = "exchangeLong"
    /\ httpLog' = Append(httpLog, exchangeToLongLived(shortToken, creds.appID, creds.appSecret))
    /\ httpReplies' = Append(httpReplies, resp)
    /\ UNCHANGED <<command, finalToken, tokenType, printed>>
    /\ LET r == metaTokenFetch(resp)
           a == AfterStep(r, "failed to upgrade token", "fetchMe", loginResult)
       IN /\ longToken' = IF a.lpc = "failed" THEN longToken ELSE r.token
          /\ lpc' = a.lpc
          /\ loginResult' = a.result
    /\ UNCHANGED <<environ, cfgFile, cfgFile0, creds, listener, serving, port, codeCh, errCh,
                   blocked, selected, events, shutdowns, browser, shortToken>>
    /\ UNCHANGED <<clientVars, resolveVars>>

LoginConfig_NewDefaultAccount(file, token, userID, userName, id, secret) ==
    [EmptyConfig EXCEPT !.AccessToken = token, !.TokenType = TokenTypeOAuth,
                        !.UserID = userID, !.UserName = userName,
                        !.AppID = id, !.AppSecret = secret]

\* lines 386-398: the Config that login saves
LoginConfig(file, token, userID, userName, id, secret) ==
    LET existing == Load(file).cfg
        new == [EmptyConfig EXCEPT !.AccessToken = token, !.TokenType = TokenTypeOAuth,
                                   !.UserID = userID, !.UserName = userName,
                                   !.AppID = id, !.AppSecret = secret]
    IN IF existing # Null THEN [new EXCEPT !.DefaultAccount = existing.DefaultAccount] ELSE new

\* lines 379-406: identity, then save
FetchMeAndSave(resp, written) ==
    /\ lpc = "fetchMe"
    /\ httpLog' = Append(httpLog, fetchMeURL(longToken))
    /\ httpReplies' = Append(httpReplies, resp)
    /\ UNCHANGED <<command, finalToken, tokenType, printed>>
    /\ LET r == fetchMe(resp)
           a == AfterStep(r, "failed to fetch user info", "save", loginResult)
       IN
       IF a.lpc = "failed"
       THEN /\ loginResult' = a.result
            /\ lpc' = "failed"
            /\ UNCHANGED cfgFile
       ELSE LET sv == Save(cfgFile,
                           LoginConfig(cfgFile, longToken, r.id, r.name, creds.appID,
                                       creds.appSecret),
                           written)
            IN /\ cfgFile' = sv.file
               /\ loginResult' = IF sv.err THEN Fail([kind |-> "failed to save config"])
                                 ELSE [ok |-> TRUE, err |-> Null]
               /\ lpc' = IF sv.err THEN "failed" ELSE "done"
    /\ UNCHANGED <<environ, cfgFile0, creds, listener, serving, port, codeCh, errCh, blocked,
                   selected, events, shutdowns, browser, shortToken, longToken>>
    /\ UNCHANGED <<clientVars, resolveVars>>

NextLogin ==
    \/ \E ok \in BOOLEAN, prt \in Ports : LoginStart(ok, prt)
    \/ OpenBrowser
    \/ \E q \in CallbackQueries : Callback(q)
    \/ ServeFails
    \/ SelectEnter
    \/ Deadline
    \/ AfterSelect
    \/ \E resp \in TokenResponses : ExchangeCode(resp)
    \/ \E resp \in TokenResponses : ExchangeLongLived(resp)
    \/ \E resp \in MeResponses, written \in BOOLEAN : FetchMeAndSave(resp, written)

SpecLogin == InitLogin /\ [][NextLogin]_vars

\* ------------------------------------------------------------------------
\* auth set-token and auth extend-token
\* ------------------------------------------------------------------------
TokenCommands ==
    {Command("set-token", "tok_in", noExtend, FALSE) : noExtend \in BOOLEAN}
    \cup {Command("extend-token", "tok_in", FALSE, save) : save \in BOOLEAN}

InitToken ==
    /\ ClientUnused
    /\ NoResolve
    /\ environ \in Environs
    /\ cfgFile \in ConfigFiles
    /\ cfgFile0 = cfgFile
    /\ lpc = "start"
    /\ command \in TokenCommands
    /\ LoginLocals

ShouldExtend_IgnoresFlag(noExtend, c) == c.appID # "" /\ c.appSecret # ""

\* line 418: whether set-token upgrades the token
ShouldExtend(noExtend, c) == ~noExtend /\ c.appID # "" /\ c.appSecret # ""

\* runAuthSetToken, lines 410-432 up to the exchange
SetTokenStart ==
    /\ lpc = "start"
    /\ command.name = "set-token"
    /\ LET c == resolveAppCredentials(environ, cfgFile)
           extend == ShouldExtend(command.authSetTokenNoExtend, c)
       IN /\ creds' = c
          /\ finalToken' = command.token
          /\ tokenType' = TokenTypeManual
          /\ lpc' = IF extend THEN "setExtend" ELSE "validate"
          /\ printed' = IF extend THEN <<"upgrading to long-lived token">>
                        ELSE IF ~command.authSetTokenNoExtend
                        THEN <<"saving token as-is (not extended)">>
                        ELSE <<>>
    /\ UNCHANGED <<environ, cfgFile, cfgFile0, listener, serving, port, codeCh, errCh, blocked,
                   selected, events, shutdowns, browser, httpLog, httpReplies, command,
                   shortToken, longToken, loginResult>>
    /\ UNCHANGED <<clientVars, resolveVars>>

\* runAuthSetToken, lines 420-428: the upgrade and its outcome
SetTokenExtend(resp) ==
    /\ lpc = "setExtend"
    /\ httpLog' = Append(httpLog, exchangeToLongLived(command.token, creds.appID,
                                                      creds.appSecret))
    /\ httpReplies' = Append(httpReplies, resp)
    /\ LET r == metaTokenFetch(resp) IN
       IF r.ok
       THEN /\ finalToken' = r.token
            /\ tokenType' = TokenTypeLongLived
            /\ printed' = Append(printed, "Token upgraded to long-lived")
       ELSE /\ printed' = Append(printed, "could not upgrade, saving original token")
            /\ UNCHANGED <<finalToken, tokenType>>
    /\ lpc' = "validate"
    /\ UNCHANGED <<environ, cfgFile, cfgFile0, creds, listener, serving, port, codeCh, errCh,
                   blocked, selected, events, shutdowns, browser, command, shortToken,
                   longToken, loginResult>>
    /\ UNCHANGED <<clientVars, resolveVars>>

\* lines 441-458: the Config that set-token saves
SetTokenConfig(file, token, type, userID, userName, id, secret) ==
    LET existing == Load(file).cfg
        new == [EmptyConfig EXCEPT !.AccessToken = token, !.TokenType = type,
                                   !.UserID = userID, !.UserName = userName,
                                   !.AppID = id, !.AppSecret = secret]
    IN IF existing = Null THEN new
       ELSE [new EXCEPT !.DefaultAccount = existing.DefaultAccount,
                        !.AppID = IF id = "" THEN existing.AppID ELSE id,
                        !.AppSecret = IF secret = "" THEN existing.AppSecret ELSE secret]

\* runAuthSetToken, lines 434-467: validation, then save
SetTokenValidate(resp, written) ==
    /\ lpc = "validate"
    /\ httpLog' = Append(httpLog, fetchMeURL(finalToken))
    /\ httpReplies' = Append(httpReplies, resp)
    /\ LET r == fetchMe(resp)
           a == AfterStep(r, "token validation failed", "save", loginResult)
       IN
       IF a.lpc = "failed"
       THEN /\ loginResult' = a.result
            /\ lpc' = "failed"
            /\ UNCHANGED <<cfgFile, printed>>
       ELSE LET sv == Save(cfgFile,
                           SetTokenConfig(cfgFile, finalToken, tokenType, r.id, r.name,
                                          creds.appID, creds.appSecret),
                           written)
            IN /\ cfgFile' = sv.file
               /\ loginResult' = IF sv.err THEN Fail([kind |-> "failed to save config"])
                                 ELSE [ok |-> TRUE, err |-> Null]
               /\ lpc' = IF sv.err THEN "failed" ELSE "done"
               /\ printed' = IF sv.err THEN printed ELSE Append(printed, "Token saved")
    /\ UNCHANGED <<environ, cfgFile0, creds, listener, serving, port, codeCh, errCh, blocked,
                   selected, events, shutdowns, browser, command, finalToken, tokenType,
                   shortToken, longToken>>
    /\ UNCHANGED <<clientVars, resolveVars>>

\* runAuthExtendToken, lines 471-479: the credentials it needs
ExtendCredentialError(c) ==
    IF c.appID = "" THEN [kind |-> "META_APP_ID not available"]
    ELSE IF c.appSecret = "" THEN [kind |-> "META_APP_SECRET not available"]
    ELSE Null

ExtendTokenStart ==
    /\ lpc = "start"
    /\ command.name = "extend-token"
    /\ LET c == resolveAppCredentials(environ, cfgFile) IN
       /\ creds' = c
       /\ shortToken' = command.token
       /\ IF ExtendCredentialError(c) # Null
          THEN /\ loginResult' = Fail(ExtendCredentialError(c))
               /\ lpc' = "failed"
          ELSE /\ lpc' = "extend"
               /\ UNCHANGED loginResult
    /\ UNCHANGED <<environ, cfgFile, cfgFile0, listener, serving, port, codeCh, errCh, blocked,
                   selected, events, shutdowns, browser, httpLog, httpReplies, command,
                   finalToken, tokenType, printed, longToken>>
    /\ UNCHANGED <<clientVars, resolveVars>>

\* runAuthExtendToken, lines 481-487 and 511-518: the exchange, and the
\* output when --save is not given
ExtendTokenExchange(resp) ==
    /\ lpc = "extend"
    /\ httpLog' = Append(httpLog, exchangeToLongLived(shortToken, creds.appID, creds.appSecret))
    /\ httpReplies' = Append(httpReplies, resp)
    /\ LET r == metaTokenFetch(resp)
           a == AfterStep(r, "token exchange failed", "extendValidate", loginResult)
       IN IF a.lpc = "failed"
          THEN /\ loginResult' = a.result
               /\ lpc' = "failed"
               /\ UNCHANGED <<longToken, printed>>
          ELSE /\ longToken' = r.token
               /\ IF command.authExtendTokenSave
                  THEN /\ lpc' = a.lpc
                       /\ UNCHANGED <<loginResult, printed>>
                  ELSE /\ lpc' = "done"
                       /\ printed' = Append(printed, <<"Long-lived token:", r.token>>)
                       /\ loginResult' = [ok |-> TRUE, err |-> Null]
    /\ UNCHANGED <<environ, cfgFile, cfgFile0, creds, listener, serving, port, codeCh, errCh,
                   blocked, selected, events, shutdowns, browser, command, finalToken,
                   tokenType, shortToken>>
    /\ UNCHANGED <<clientVars, resolveVars>>

ExtendTokenConfig_NewDefaultAccount(file, token, userID, userName, id, secret) ==
    [EmptyConfig EXCEPT !.AccessToken = token, !.TokenType = TokenTypeLongLived,
                        !.UserID = userID, !.UserName = userName,
                        !.AppID = id, !.AppSecret = secret]

\* lines 494-505: the Config that extend-token --save saves
ExtendTokenConfig(file, token, userID, userName, id, secret) ==
    LET existing == Load(file).cfg
        new == [EmptyConfig EXCEPT !.AccessToken = token, !.TokenType = TokenTypeLongLived,
                                   !.UserID = userID, !.UserName = userName,
                                   !.AppID = id, !.AppSecret = secret]
    IN IF existing # Null THEN [new EXCEPT !.DefaultAccount = existing.DefaultAccount] ELSE new

\* runAuthExtendToken, lines 487-510: validation, then save
ExtendTokenValidate(resp, written) ==
    /\ lpc = "extendValidate"
    /\ httpLog' = Append(httpLog, fetchMeURL(longToken))
    /\ httpReplies' = Append(httpReplies, resp)
    /\ LET r == fetchMe(resp)
           a == AfterStep(r, "token validation failed", "save", loginResult)
       IN
       IF a.lpc = "failed"
       THEN /\ loginResult' = a.result
            /\ lpc' = "failed"
            /\ UNCHANGED <<cfgFile, printed>>
       ELSE LET sv == Save(cfgFile,
                           ExtendTokenConfig(cfgFile, longToken, r.id, r.name, creds.appID,
                                             creds.appSecret),
                           written)
            IN /\ cfgFile' = sv.file
               /\ loginResult' = IF sv.err THEN Fail([kind |-> "failed to save config"])
                                 ELSE [ok |-> TRUE, err |-> Null]
               /\ lpc' = IF sv.err THEN "failed" ELSE "done"
               /\ printed' = IF sv.err THEN printed
                             ELSE Append(printed, "Long-lived token saved")
    /\ UNCHANGED <<environ, cfgFile0, creds, listener, serving, port, codeCh, errCh, blocked,
                   selected, events, shutdowns, browser, command, finalToken, tokenType,
                   shortToken, longToken>>
    /\ UNCHANGED <<clientVars, resolveVars>>

NextToken ==
    \/ SetTokenStart
    \/ \E resp \in TokenResponses : SetTokenExtend(resp)
    \/ \E resp \in MeResponses, written \in BOOLEAN : SetTokenValidate(resp, written)
    \/ ExtendTokenStart
    \/ \E resp \in TokenResponses : ExtendTokenExchange(resp)
    \/ \E resp \in MeResponses, written \in BOOLEAN : ExtendTokenValidate(resp, written)

SpecToken == InitToken /\ [][NextToken]_vars

\* ------------------------------------------------------------------------
\* Start of a command: PersistentPreRunE
\* ------------------------------------------------------------------------
ResolveEnvirons ==
    {[NoEnviron EXCEPT !["META_TOKEN"] = t, !["META_APP_SECRET"] = x,
                       !["META_ADS_ACCOUNT"] = a, !["META_APP_ID"] = i] :
        t \in {"", "tok_env"}, x \in {"", "sec_env"}, a \in {"", "act_77"},
        i \in {"", "id_env"}}

AccountFlags == {"", "123"}

ResolveConfigFiles ==
    ConfigFiles \cup {FileWith(ConfigToJSON([StoredConfig EXCEPT !.AccessToken = ""])),
                      FileWith(ConfigToJSON(EmptyConfig))}

SharedFiles ==
    {SharedMissing, SharedUnreadable, SharedWith("", FALSE, -1),
     SharedWith("tok_shared", FALSE, 30), SharedWith("tok_shared", FALSE, 7),
     SharedWith("tok_shared", TRUE, -1)}

InitResolve ==
    /\ ClientUnused
    /\ environ \in ResolveEnvirons
    /\ cfgFile \in ResolveConfigFiles
    /\ cfgFile0 = cfgFile
    /\ lpc = "none"
    /\ command = NoCommand
    /\ LoginLocals
    /\ sharedFile \in SharedFiles
    /\ globalCfg = Null
    /\ resolved = NoResolved
    /\ rpc = "start"
    /\ accountFlag \in AccountFlags
    /\ accountResult = NoAccount

\* rootCmd.PersistentPreRunE, lines 63-75
PersistentPreRunE(isAuthCommand) ==
    /\ rpc = "start"
    /\ IF isAuthCommand
       THEN /\ rpc' = "auth"
            /\ UNCHANGED <<client, stderr, globalCfg, resolved, pc>>
       ELSE LET r == resolveToken(environ, cfgFile, sharedFile) IN
            /\ resolved' = [ok |-> r.ok, token |-> r.token, appSecret |-> r.appSecret,
                            err |-> r.err]
            /\ globalCfg' = r.cfg
            /\ stderr' = stderr \o r.warn
            /\ client' = IF r.ok THEN NewClient(r.token, r.appSecret) ELSE client
            /\ rpc' = IF r.ok THEN "ready" ELSE "failed"
            /\ pc' = IF r.ok THEN "idle" ELSE pc
    /\ UNCHANGED <<calls, requests, responses, result, callerParams, p, currentPath, all>>
    /\ UNCHANGED <<loginVars, sharedFile, accountFlag, accountResult>>

\* a command that needs an account calls resolveAccount first
ResolveAccount ==
    /\ rpc = "ready"
    /\ pc = "idle"
    /\ accountResult' = resolveAccount(accountFlag, environ, globalCfg)
    /\ rpc' = "account"
    /\ UNCHANGED <<sharedFile, globalCfg, resolved, accountFlag>>
    /\ UNCHANGED <<clientVars, loginVars>>

\* answers to the request of the command that follows
CommandResponses == {ConnFail, Response(200, HMissing, PlainObject)}

\* the first statement of runAuthLogin, runAuthSetToken and runAuthExtendToken
AuthCredentials ==
    /\ rpc = "auth"
    /\ creds' = resolveAppCredentials(environ, cfgFile)
    /\ rpc' = "creds"
    /\ UNCHANGED <<environ, cfgFile, cfgFile0, lpc, listener, serving, port, codeCh, errCh,
                   blocked, selected, events, shutdowns, browser, httpLog, httpReplies,
                   command, finalToken, tokenType, printed, shortToken, longToken,
                   loginResult>>
    /\ UNCHANGED <<sharedFile, globalCfg, resolved, accountFlag, accountResult>>
    /\ UNCHANGED clientVars

NextResolve ==
    \/ \E isAuthCommand \in BOOLEAN : PersistentPreRunE(isAuthCommand)
    \/ ResolveAccount
    \/ AuthCredentials
    \/ \E path \in Paths, params \in GetParams, resp \in CommandResponses :
          Get(path, params, resp)
    \/ \E path \in Paths, body \in PostBodies, resp \in CommandResponses :
          Post(path, body, resp)

SpecResolve == InitResolve /\ [][NextResolve]_vars

\* ------------------------------------------------------------------------
\* An auth command, then a command that uses the API
\* ------------------------------------------------------------------------
InitRoundTrip == InitLogin \/ InitToken

\* the next invocation of the program after an auth command has returned
\* nil: a new process, whose environment may set META_TOKEN
FollowingCommand(envToken) ==
    /\ lpc = "done"
    /\ rpc = "none"
    /\ environ' = [environ EXCEPT !["META_TOKEN"] = envToken]
    /\ cfgFile0' = cfgFile
    /\ rpc' = "start"
    /\ UNCHANGED <<cfgFile, lpc, creds, listener, serving, port, codeCh, errCh, blocked,
                   selected, events, shutdowns, browser, httpLog, httpReplies, command,
                   finalToken, tokenType, printed, shortToken, longToken, loginResult>>
    /\ UNCHANGED <<sharedFile, globalCfg, resolved, accountFlag, accountResult>>
    /\ UNCHANGED clientVars

NextRoundTrip ==
    \/ NextLogin
    \/ NextToken
    \/ \E envToken \in {"", "tok_env"} : FollowingCommand(envToken)
    \/ PersistentPreRunE(FALSE)
    \/ \E path \in Paths, resp \in CommandResponses :
          Get(path, [fields |-> "id,name"], resp)

SpecRoundTrip == InitRoundTrip /\ [][NextRoundTrip]_vars

\* ========================================================================
\* Properties of the API client
\* ========================================================================

\* what the server put in a response, read off the JSON document itself
IsHTTP(resp) == resp.kind = "http"

ServedEnvelope(body) ==
    /\ body.kind = "object"
    /\ "error" \in DOMAIN body.members
    /\ body.members["error"].kind = "object"
    /\ \A f \in DOMAIN body.members["error"].members :
          body.members["error"].members[f].kind =
              (IF f \in {"code", "error_subcode"} THEN "number" ELSE "string")

EnvelopeField(body, f, default) ==
    LET e == body.members["error"].members IN
    IF f \in DOMAIN e THEN (IF e[f].kind = "number" THEN e[f].n ELSE e[f].s) ELSE default

ServedPage(resp) ==
    /\ IsHTTP(resp)
    /\ resp.status = 200
    /\ resp.body.kind = "object"
    /\ DOMAIN resp.body.members = {"data", "paging"}
    /\ resp.body.members["data"].kind = "array"

ServedData(resp) == resp.body.members["data"].items

ServedNext(resp) ==
    LET pg == resp.body.members["paging"] IN
    IF pg.kind = "object" /\ "next" \in DOMAIN pg.members THEN pg.members["next"].s
    ELSE EmptyString

RECURSIVE Concatenation(_)
Concatenation(pages) ==
    IF pages = <<>> THEN <<>> ELSE ServedData(Head(pages)) \o Concatenation(Tail(pages))

UsesGetAll ==
    /\ calls # <<>>
    /\ \/ calls[1].op = "GetAll"
       \/ calls[1].op = "CampaignsList" /\ calls[1].limit <= 0

\* the responses of the run are pages, each but the last with a cursor
PageSequence ==
    /\ responses # <<>>
    /\ \A i \in 1..Len(responses) :
          /\ ServedPage(responses[i])
          /\ (ServedNext(responses[i]) = EmptyString) <=> (i = Len(responses))

\* C1: when the server answered a GetAll run with a sequence of pages of which
\* every page but the last carries a non-empty paging.next and the last
\* carries none, GetAll returned the concatenation of the pages' data arrays,
\* in page order and with the order inside each page kept.
C1_Concatenation ==
    (UsesGetAll /\ PageSequence) =>
        /\ pc = "returned"
        /\ result.ok
        /\ result.items = Concatenation(responses)

C1_Witness ==
    /\ UsesGetAll /\ PageSequence
    /\ Len(responses) = 3
    /\ result.ok
    /\ result.items = <<"r2", "r1", "r1", "r2", "r1">>

\* a fetch that fails: transport error, error envelope, HTTP status error,
\* or a body that is not a page
FailedFetch(resp) ==
    \/ ~IsHTTP(resp)
    \/ ServedEnvelope(resp.body)
    \/ resp.status >= 400
    \/ resp.body.kind \notin {"object", "null"}
    \/ /\ resp.body.kind = "object"
       /\ "data" \in DOMAIN resp.body.members
       /\ resp.body.members["data"].kind \notin {"array", "null"}

\* C2: when the fetch of a page fails in a GetAll run, GetAll has returned an
\* error and no record list, the failed page was requested once and no
\* request follows it; every error return of GetAll carries no record list.
C2_AllOrNothing ==
    UsesGetAll =>
        /\ \A i \in 1..Len(responses) :
              FailedFetch(responses[i]) =>
                  /\ i = Len(responses)
                  /\ Len(requests) = i
                  /\ pc = "returned"
                  /\ ~result.ok
                  /\ result.items = Null
        /\ (pc = "returned" /\ ~result.ok) => result.items = Null

C2_Witness ==
    /\ UsesGetAll
    /\ Len(responses) = 2
    /\ FailedFetch(responses[2])
    /\ all = <<"r2", "r1">>
    /\ pc = "returned"
    /\ result.items = Null

CappedList ==
    /\ calls # <<>>
    /\ calls[1].op = "CampaignsList"
    /\ calls[1].limit > 0

\* C3: campaigns list --limit N with N > 0 sends exactly one GET request, its
\* limit parameter is N, it returns the records of that page only, and no
\* second request is sent even when the page carries a paging.next.
C3_SinglePage ==
    CappedList =>
        /\ pc = "returned"
        /\ Len(requests) = 1
        /\ requests[1].method = "GET"
        /\ "limit" \in DOMAIN requests[1].url.query
        /\ requests[1].url.query["limit"] = ToString(calls[1].limit)
        /\ (ServedPage(responses[1]) =>
               result.ok /\ result.items = ServedData(responses[1]))

C3_Witness ==
    /\ CappedList
    /\ calls[1].limit = 1
    /\ ServedPage(responses[1])
    /\ ServedNext(responses[1]) # EmptyString
    /\ ServedNext(responses[1]).valid
    /\ result.items = <<"r2", "r1">>
    /\ Len(requests) = 1

\* C4: at every HTTP status, a response body that is an error envelope makes
\* Get and Post fail with the API error carrying the envelope's code, subcode
\* and message.
C4_EnvelopeFirst ==
    (pc = "returned" /\ responses # <<>> /\ IsHTTP(responses[1])
        /\ ServedEnvelope(responses[1].body)) =>
        /\ ~result.ok
        /\ result.err.kind = "api"
        /\ result.err.Code = EnvelopeField(responses[1].body, "code", 0)
        /\ result.err.Subcode = EnvelopeField(responses[1].body, "error_subcode", 0)
        /\ result.err.Message = EnvelopeField(responses[1].body, "message", "")

C4_Witness ==
    /\ pc = "returned"
    /\ responses = <<Response(200, HMissing, EnvelopeFull)>>
    /\ ~result.ok
    /\ result.err.kind = "api"
    /\ result.err.Code = 190
    /\ result.err.Subcode = 463

\* C5: a response that was received and read and whose body is no error
\* envelope fails with the HTTP status error carrying the status and the raw
\* body when the status is 400 or more, and returns the raw body otherwise.
C5_StatusClassification ==
    (pc = "returned" /\ responses # <<>> /\ IsHTTP(responses[1])
        /\ ~ServedEnvelope(responses[1].body)) =>
        IF responses[1].status >= 400
        THEN result = Fail([kind |-> "HTTP", status |-> responses[1].status,
                            body |-> responses[1].body])
        ELSE result = Ok(responses[1].body)

C5_Witness ==
    /\ pc = "returned"
    /\ responses = <<Response(500, HMissing, JText)>>
    /\ result = Fail([kind |-> "HTTP", status |-> 500, body |-> JText])

HasProof(values) == "appsecret_proof" \in DOMAIN values

\* C6: a request carries the appsecret_proof parameter exactly when the
\* client's app secret is not empty; the proof is then not empty and is the
\* same on every request of the client.
C6_ProofAttachment ==
    \A i \in 1..Len(requests) :
        /\ HasProof(requests[i].url.query) <=> (client.appSecret # "")
        /\ HasProof(requests[i].url.query) =>
              /\ requests[i].url.query["appsecret_proof"] # ""
              /\ requests[i].url.query["appsecret_proof"] = requests[1].url.query["appsecret_proof"]

C6_Witness ==
    /\ client.appSecret # ""
    /\ Len(requests) = 3
    /\ \A i \in 1..3 : HasProof(requests[i].url.query)

\* ========================================================================
\* Properties of the login flow
\* ========================================================================

\* position of the select event in events, 0 before the select completed
SelectAt ==
    IF \E i \in 1..Len(events) : events[i].ev = "select"
    THEN CHOOSE i \in 1..Len(events) : events[i].ev = "select"
    ELSE 0

\* what happened before the select completed (a send that woke the parked
\* flow included)
BeforeSelect == SubSeq(events, 1, SelectAt - 1)

IsCodeCallback(e) ==
    /\ e.ev = "callback"
    /\ "error" \notin DOMAIN e.q
    /\ "code" \in DOMAIN e.q

IsErrorCallback(e) ==
    /\ e.ev = "callback"
    /\ "error" \in DOMAIN e.q

OnlyCodeCallbacks ==
    /\ SelectAt > 1
    /\ \A i \in 1..(SelectAt - 1) : IsCodeCallback(events[i])

OnlyErrorCallbacks ==
    /\ SelectAt > 1
    /\ \A i \in 1..(SelectAt - 1) : IsErrorCallback(events[i])

PastExchange == lpc \in {"exchangeLong", "fetchMe", "failed", "done"}

Ended == lpc \in {"failed", "done"}

\* C7: when the callback endpoint received code=C before the deadline and
\* nothing else (no error callback, no server failure), the wait ends with
\* C, the flow does not end before it has sent the code-exchange request,
\* and that request carries C, the redirect URI of the bound port, and the
\* resolved app ID and app secret.
C7_CodeExchange ==
    OnlyCodeCallbacks =>
        /\ selected.case = "code"
        /\ selected.val = events[1].q["code"]
        /\ PastExchange => httpLog # <<>>
        /\ httpLog # <<>> =>
              httpLog[1] =
                 [endpoint |-> "https://graph.facebook.com/v25.0/oauth/access_token",
                  params |-> [client_id |-> creds.appID,
                              client_secret |-> creds.appSecret,
                              redirect_uri |-> [scheme |-> "http", host |-> "127.0.0.1",
                                                port |-> ToString(port), path |-> "/callback"],
                              code |-> events[1].q["code"]]]

C7_Witness ==
    /\ OnlyCodeCallbacks
    /\ events[1].q["code"] = "abc123"
    /\ lpc = "exchangeLong"
    /\ httpLog[1].params.code = "abc123"
    /\ httpLog[1].params.redirect_uri.port = "50001"

\* C8: when the callback delivered an error parameter (and nothing else came
\* before the wait ended), the wait ends with that error; a wait that ended
\* with a callback error makes the flow fail with the error code and its
\* description, no token or identity request is sent and the config file is
\* not written.
C8_CallbackError ==
    /\ OnlyErrorCallbacks =>
          /\ selected.case = "err"
          /\ selected.val.kind = "OAuth error"
          /\ selected.val.error = events[1].q["error"]
    /\ (selected.case = "err" /\ selected.val.kind = "OAuth error") =>
          /\ \E i \in 1..(SelectAt - 1) :
                /\ IsErrorCallback(events[i])
                /\ selected.val.error = events[i].q["error"]
                /\ selected.val.description =
                      (IF "error_description" \in DOMAIN events[i].q
                       THEN events[i].q["error_description"] ELSE "")
          /\ lpc \in {"selected", "failed"}
          /\ lpc = "failed" => loginResult = [ok |-> FALSE, err |-> selected.val]
          /\ httpLog = <<>>
          /\ cfgFile = cfgFile0

C8_Witness ==
    /\ OnlyErrorCallbacks
    /\ lpc = "failed"
    /\ loginResult.err.kind = "OAuth error"
    /\ loginResult.err.error = "access_denied"
    /\ loginResult.err.description = "User denied"
    /\ httpLog = <<>>

\* C9: when nothing was received before the deadline the wait ends with the
\* timeout; the flow then fails with the timeout error, which no other
\* failure produces, sends no code exchange, and has closed the listener
\* when it ends.
C9_Timeout ==
    /\ SelectAt = 1 => selected.case = "timeout"
    /\ selected.case = "timeout" =>
          /\ lpc \in {"selected", "failed"}
          /\ httpLog = <<>>
          /\ lpc = "failed" =>
                /\ loginResult = [ok |-> FALSE,
                                  err |-> [kind |-> "timed out waiting for OAuth callback (5 minutes)"]]
                /\ listener = "closed"
    /\ (lpc = "failed" /\ selected.case # "timeout") =>
          loginResult.err.kind # "timed out waiting for OAuth callback (5 minutes)"

C9_Witness ==
    /\ events = <<[ev |-> "select", case |-> "timeout"]>>
    /\ lpc = "failed"
    /\ loginResult.err.kind = "timed out waiting for OAuth callback (5 minutes)"
    /\ listener = "closed"

\* C10: once the listener is bound, every end of the flow has closed it, by
\* exactly one call of shutdownServer; shutdownServer is never called twice
\* and never without a listener.
C10_ListenerClosed ==
    /\ shutdowns <= 1
    /\ listener = "none" => shutdowns = 0
    /\ (Ended /\ listener # "none") => (listener = "closed" /\ shutdowns = 1)

C10_Witness ==
    /\ lpc = "done"
    /\ listener = "closed"
    /\ shutdowns = 1

\* what the /callback handler is to deliver for an event
ExpectedCase(e) == IF IsCodeCallback(e) THEN "code" ELSE "err"

\* C11: the outcome of the wait is the first event that occurred: when the
\* first event is a callback, the select took the channel of that callback
\* (code for a code callback, error otherwise), and for a code callback
\* received that callback's code.
C11_FirstEventWins ==
    (SelectAt > 1 /\ events[1].ev = "callback") =>
        /\ selected.case = ExpectedCase(events[1])
        /\ IsCodeCallback(events[1]) => selected.val = events[1].q["code"]


\* ========================================================================
\* Properties of token resolution
\* ========================================================================
\* resolveToken has run for this command
Resolving == rpc \in {"ready", "failed"}

EnvToken == environ["META_TOKEN"]

OwnReadable == ~Load(cfgFile).err

OwnToken == IF OwnReadable THEN Load(cfgFile).cfg.AccessToken ELSE ""

OwnSecret == IF OwnReadable THEN Load(cfgFile).cfg.AppSecret ELSE ""

SharedReadable == sharedFile.state # "unreadable"

SharedToken == IF sharedFile.state = "present" THEN sharedFile.token ELSE ""

\* the token of the highest-priority source that holds one, "" when none does
HighestToken ==
    IF EnvToken # "" THEN EnvToken ELSE IF OwnToken # "" THEN OwnToken ELSE SharedToken

\* C12: the token is taken in strict priority order, META_TOKEN, then the
\* tool's stored config, then the shared meta-auth config: the environment
\* token wins over a stored one, the stored one is used when the environment
\* has none, the shared one when the (readable) stored config has none, and
\* with no token in any (readable) source the error is "not authenticated".
C12_Priority ==
    Resolving =>
        /\ EnvToken # "" => resolved.ok /\ resolved.token = EnvToken
        /\ (EnvToken = "" /\ OwnToken # "") => resolved.ok /\ resolved.token = OwnToken
        /\ (EnvToken = "" /\ OwnReadable /\ OwnToken = "" /\ SharedToken # "") =>
               resolved.ok /\ resolved.token = SharedToken
        /\ (EnvToken = "" /\ OwnReadable /\ OwnToken = "" /\ SharedReadable
                /\ SharedToken = "") =>
               ~resolved.ok /\ resolved.err = [kind |-> NotAuthenticated]

C12_Witness ==
    /\ rpc = "ready"
    /\ EnvToken # "" /\ OwnToken # "" /\ SharedToken # ""
    /\ resolved.token = EnvToken

\* C13: resolveToken succeeds exactly when some source holds a non-empty
\* token, and then with the token of the highest-priority such source,
\* whatever the state of the other sources.
C13_AnyTokenSucceeds ==
    Resolving =>
        /\ resolved.ok <=> HighestToken # ""
        /\ resolved.ok => resolved.token = HighestToken

StepError ==
    <<"failed to exchange code", "failed to upgrade token", "failed to fetch user info">>

LoginSteps == Len(StepError)

\* step k of the login (1 code exchange, 2 long-lived exchange, 3 identity
\* fetch) was answered with a failure
StepFailed(k) ==
    /\ k <= Len(httpReplies)
    /\ IF k = LoginSteps THEN ~fetchMe(httpReplies[k]).ok
       ELSE ~metaTokenFetch(httpReplies[k]).ok

\* C15: when the code exchange, the long-lived exchange or the identity fetch
\* of a login fails, no later step runs, the command returns the error of
\* that step, and the config file is as it was before the command.
C15_FailedLoginSavesNothing ==
    command.name = "login" =>
        \A k \in 1..LoginSteps :
            StepFailed(k) =>
                /\ Len(httpLog) = k
                /\ lpc = "failed"
                /\ ~loginResult.ok
                /\ loginResult.err.kind = StepError[k]
                /\ cfgFile = cfgFile0

C15_Witness ==
    /\ command.name = "login"
    /\ StepFailed(LoginSteps)
    /\ longToken = "tok2"
    /\ cfgFile = FileWith(ConfigToJSON(StoredConfig))
    /\ lpc = "failed"


\* the default account the config file held when the command started, as
\* config.Load reads it ("" when the file is absent or does not load)
StoredDefaultAccount ==
    IF Load(cfgFile0).err THEN "" ELSE Load(cfgFile0).cfg.DefaultAccount

\* C16: a login that succeeds has run the code exchange, the long-lived
\* exchange, the identity fetch and the save in that order, each on the
\* result of the one before; the saved config holds the long-lived token with
\* type oauth, the identity fetched with that token, the app ID and secret
\* used, and the default account stored before the login.
C16_SuccessfulLogin ==
    (command.name = "login" /\ lpc = "done") =>
        /\ Len(httpLog) = LoginSteps
        /\ \A k \in 1..LoginSteps : ~StepFailed(k)
        /\ httpLog[1] = exchangeCode(selected.val, creds.appID, creds.appSecret,
                                     RedirectURI(port))
        /\ shortToken = metaTokenFetch(httpReplies[1]).token
        /\ httpLog[2] = exchangeToLongLived(shortToken, creds.appID, creds.appSecret)
        /\ longToken = metaTokenFetch(httpReplies[2]).token
        /\ httpLog[3] = fetchMeURL(longToken)
        /\ loginResult.ok
        /\ ~Load(cfgFile).err
        /\ Load(cfgFile).cfg =
              [AccessToken |-> longToken, TokenType |-> "oauth",
               UserID |-> fetchMe(httpReplies[3]).id,
               UserName |-> fetchMe(httpReplies[3]).name,
               DefaultAccount |-> StoredDefaultAccount,
               AppID |-> creds.appID, AppSecret |-> creds.appSecret]

C16_Witness ==
    /\ command.name = "login" /\ lpc = "done"
    /\ shortToken = "tok1" /\ longToken = "tok2"
    /\ StoredDefaultAccount = "act_9"
    /\ Load(cfgFile).cfg.AccessToken = "tok2"
    /\ Load(cfgFile).cfg.DefaultAccount = "act_9"
    /\ Load(cfgFile).cfg.UserID = "u1"


\* C17: a login whose resolved app ID is empty fails with the error naming
\* META_APP_ID, and otherwise one whose resolved app secret is empty fails
\* with the error naming META_APP_SECRET; in both cases no listener is bound,
\* no browser is opened, no HTTP request is made and the config file is
\* unchanged.
C17_FailFast ==
    (command.name = "login" /\ lpc # "start") =>
        LET c == resolveAppCredentials(environ, cfgFile0) IN
        (c.appID = "" \/ c.appSecret = "") =>
            /\ lpc = "failed"
            /\ ~loginResult.ok
            /\ loginResult.err.kind =
                  IF c.appID = "" THEN "META_APP_ID not set" ELSE "META_APP_SECRET not set"
            /\ listener = "none" /\ ~serving
            /\ browser = Null
            /\ httpLog = <<>>
            /\ events = <<>>
            /\ cfgFile = cfgFile0

C17_Witness ==
    /\ command.name = "login" /\ lpc = "failed"
    /\ resolveAppCredentials(environ, cfgFile0) = [appID |-> "id_env", appSecret |-> ""]
    /\ loginResult.err.kind = "META_APP_SECRET not set"
    /\ listener = "none"


\* ========================================================================
\* Properties of the request URLs
\* ========================================================================
AuthParams == {"access_token", "appsecret_proof"}

\* the authentication parameters the client is to attach
ExpectedAuth ==
    IF client.appSecret = "" THEN {"access_token"} ELSE AuthParams

\* C18: every GET carries the authentication parameters (access_token, and
\* appsecret_proof when a secret is configured) in its query string; every
\* POST carries them in its form body and none of them in the query string
\* of its URL.
C18_AuthPlacement ==
    \A i \in 1..Len(requests) :
        /\ requests[i].method = "GET" =>
              /\ ExpectedAuth \subseteq DOMAIN requests[i].url.query
              /\ requests[i].url.query["access_token"] = client.token
        /\ requests[i].method = "POST" =>
              /\ ExpectedAuth \subseteq DOMAIN requests[i].form
              /\ requests[i].form["access_token"] = client.token
              /\ AuthParams \cap DOMAIN requests[i].url.query = {}


\* C19: every follow-up request of GetAll goes to the paging.next URL of the
\* page before it, verbatim: the first-page parameters are not applied again
\* and no query parameter of the cursor URL is added, removed or overwritten.
C19_CursorVerbatim ==
    UsesGetAll =>
        \A i \in 2..Len(requests) :
            /\ ServedPage(responses[i - 1])
            /\ requests[i].url = ServedNext(responses[i - 1])


\* ========================================================================
\* Properties of set-token and extend-token
\* ========================================================================
ManualToken == command.name \in {"set-token", "extend-token"}

\* the command has written the config file
Persisted ==
    /\ lpc = "done"
    /\ command.name = "extend-token" => command.authExtendTokenSave

LastRequest == httpLog[Len(httpLog)]

LastReply == httpReplies[Len(httpReplies)]

\* the reply carries a user identity
HasIdentity(resp) ==
    /\ IsHTTP(resp)
    /\ resp.body.kind = "object"
    /\ ~JHas(resp.body, "error")
    /\ JHas(resp.body, "id")
    /\ resp.body.members["id"].kind = "string"
    /\ resp.body.members["id"].s # ""

\* C20: set-token and extend-token --save write the config only after the
\* identity fetch for the very token they save returned a user identity; when
\* the identity endpoint reports an error or returns no identity the command
\* fails and the config file is as it was.
C20_ValidatedBeforeSave ==
    ManualToken =>
        /\ Persisted =>
              /\ ~Load(cfgFile).err
              /\ LastRequest = fetchMeURL(Load(cfgFile).cfg.AccessToken)
              /\ HasIdentity(LastReply)
        /\ (httpLog # <<>> /\ LastRequest.endpoint = metaMeURL /\ ~HasIdentity(LastReply)) =>
              /\ lpc = "failed"
              /\ cfgFile = cfgFile0


\* set-token has sent the long-lived exchange
ExchangeAttempted == httpLog # <<>> /\ httpLog[1].endpoint = metaExchangeURL

\* C21: set-token attempts the long-lived exchange exactly when --no-extend
\* is not set and the app ID and the app secret both resolve to non-empty
\* values; when the exchange succeeds it saves the long-lived token with type
\* long-lived, and in every other case the pasted token with type manual.
C21_SetTokenExtend ==
    (command.name = "set-token" /\ lpc # "start") =>
        LET c == resolveAppCredentials(environ, cfgFile0)
            due == ~command.authSetTokenNoExtend /\ c.appID # "" /\ c.appSecret # ""
            upgraded == ExchangeAttempted /\ metaTokenFetch(httpReplies[1]).ok
        IN /\ lpc = "setExtend" => due
           /\ lpc # "setExtend" => (ExchangeAttempted <=> due)
           /\ ExchangeAttempted =>
                 httpLog[1] = exchangeToLongLived(command.token, c.appID, c.appSecret)
           /\ lpc = "done" =>
                 /\ ~Load(cfgFile).err
                 /\ Load(cfgFile).cfg.AccessToken =
                       IF upgraded THEN metaTokenFetch(httpReplies[1]).token
                       ELSE command.token
                 /\ Load(cfgFile).cfg.TokenType = IF upgraded THEN "long-lived" ELSE "manual"

C21_Witness ==
    /\ command.name = "set-token" /\ lpc = "done"
    /\ ExchangeAttempted
    /\ ~metaTokenFetch(httpReplies[1]).ok
    /\ Load(cfgFile).cfg.AccessToken = "tok_in"
    /\ Load(cfgFile).cfg.TokenType = "manual"


\* C22: extend-token without --save leaves the config file as it was,
\* whatever the exchange returned; with --save the config is written only
\* after the exchange and the identity fetch both returned without error, and
\* then holds the long-lived token with type long-lived and the default
\* account stored before.
C22_ExtendTokenFrame ==
    command.name = "extend-token" =>
        /\ ~command.authExtendTokenSave => cfgFile = cfgFile0
        /\ (command.authExtendTokenSave /\ cfgFile # cfgFile0) => lpc = "done"
        /\ (command.authExtendTokenSave /\ lpc = "done") =>
              /\ Len(httpLog) = 2
              /\ httpLog[1] = exchangeToLongLived(command.token, creds.appID, creds.appSecret)
              /\ metaTokenFetch(httpReplies[1]).ok
              /\ httpLog[2] = fetchMeURL(metaTokenFetch(httpReplies[1]).token)
              /\ fetchMe(httpReplies[2]).ok
              /\ ~Load(cfgFile).err
              /\ Load(cfgFile).cfg.AccessToken = metaTokenFetch(httpReplies[1]).token
              /\ Load(cfgFile).cfg.TokenType = "long-lived"
              /\ Load(cfgFile).cfg.DefaultAccount = StoredDefaultAccount

C22_Witness ==
    /\ command.name = "extend-token" /\ command.authExtendTokenSave
    /\ lpc = "done"
    /\ StoredDefaultAccount = "act_9"
    /\ Load(cfgFile).cfg.AccessToken = "tok2"
    /\ Load(cfgFile).cfg.DefaultAccount = "act_9"


\* ========================================================================
\* Properties of account resolution
\* ========================================================================
\* the default account in the config file, as config.Load reads it
OwnDefaultAccount == IF OwnReadable THEN Load(cfgFile).cfg.DefaultAccount ELSE ""

\* the first non-empty of the flag, META_ADS_ACCOUNT and the stored default
ChosenAccount ==
    IF accountFlag # "" THEN accountFlag
    ELSE IF environ["META_ADS_ACCOUNT"] # "" THEN environ["META_ADS_ACCOUNT"]
    ELSE OwnDefaultAccount

\* C23: whichever source supplied the token, resolveAccount returns the
\* act_-prefixed form of the first non-empty of the --account flag,
\* META_ADS_ACCOUNT and the stored default account, fails with the no-account
\* error only when all three are empty, and leaves the config file unchanged.
C23_AccountPriority ==
    rpc = "account" =>
        /\ cfgFile = cfgFile0
        /\ IF ChosenAccount = ""
           THEN ~accountResult.ok /\ accountResult.err = NoAccountError
           ELSE /\ accountResult.ok
                /\ accountResult.id \in {ChosenAccount, "act_" \o ChosenAccount}
                /\ HasPrefix(accountResult.id, "act_")


\* ========================================================================
\* Properties of app credential resolution
\* ========================================================================
OwnAppID == IF OwnReadable THEN Load(cfgFile).cfg.AppID ELSE ""

\* what resolveAppCredentials is to return: the environment variable when
\* it is not empty, the stored value otherwise, each credential on its own
EnvFirstCredentials ==
    [appID |-> IF environ["META_APP_ID"] # "" THEN environ["META_APP_ID"] ELSE OwnAppID,
     appSecret |-> IF environ["META_APP_SECRET"] # "" THEN environ["META_APP_SECRET"]
                   ELSE OwnSecret]

C25_NoEmptyToken ==
    /\ (Resolving /\ resolved.ok) => resolved.token # ""
    /\ rpc \in {"ready", "account"} => resolved.ok
    /\ client # Null => client.token # "" /\ client.token = resolved.token
    /\ \A i \in 1..Len(requests) :
          /\ "access_token" \in DOMAIN requests[i].url.query
          /\ requests[i].url.query["access_token"] # ""
    /\ (Resolving /\ OwnReadable /\ SharedReadable) =>
          /\ resolved.ok <=> HighestToken # ""
          /\ resolved.ok => resolved.token = HighestToken

C25_Witness ==
    /\ EnvToken = ""
    /\ cfgFile.state = "present" /\ OwnReadable /\ OwnToken = ""
    /\ SharedToken = "tok_shared"
    /\ requests # <<>>
    /\ requests[1].url.query["access_token"] = "tok_shared"


\* ========================================================================
\* Properties of the usage header
\* ========================================================================
\* the usage header parses and some entry is above 75
HighUsage(header) ==
    /\ header.kind = "usage"
    /\ \E i \in 1..Len(header.entries) :
          header.entries[i].CallCount > 75 \/ header.entries[i].TotalTime > 75

\* a response arrived for the request of this run
Answered ==
    /\ pc = "returned"
    /\ Len(responses) = 1
    /\ responses[1].kind # "connfail"

\* C26: a warning is written exactly when the usage header of the response
\* parses and some entry has call_count > 75 or total_time > 75, and the
\* header has no other effect: the same response with any other usage header
\* gives the same returned body or error.
C26_HeaderOnlyWarns ==
    (Answered /\ calls[1].op \in {"Get", "Post"}) =>
        /\ stderr # <<>> <=> HighUsage(responses[1].header)
        /\ \A h \in Headers :
              doRequest([responses[1] EXCEPT !.header = h]).ret = result

C26_Witness ==
    /\ Answered
    /\ calls[1].op = "Get"
    /\ responses[1] = Response(200, HUsage(<<Usage(10, 90), Usage(80, 77)>>), PlainObject)
    /\ stderr = <<90, 80>>
    /\ result = Ok(PlainObject)


\* ========================================================================
\* Properties of the GetAll loop
\* ========================================================================
CalledGetAll == calls # <<>> /\ calls[1].op = "GetAll"

\* C27: GetAll leaves the caller's parameter map with the keys and values it
\* had before the call, whether or not GetAll applied the default limit and
\* whether or not it followed a cursor; the first request carries the
\* caller's limit when the caller set one, and 100 otherwise.
C27_CallerParamsKept ==
    CalledGetAll =>
        /\ callerParams = calls[1].params
        /\ requests # <<>> =>
              requests[1].url.query["limit"] =
                  IF ValuesGet(calls[1].params, "limit") # ""
                  THEN calls[1].params["limit"] ELSE "100"

C27_Witness ==
    /\ CalledGetAll
    /\ pc = "returned"
    /\ result.ok
    /\ Len(requests) >= 2
    /\ requests[1].url.query["limit"] = "100"
    /\ callerParams = [fields |-> "id,name"]


\* the answer is a page that decodes and carries a non-empty paging.next
Continues(resp) ==
    /\ doRequest(resp).ret.ok
    /\ ~DecodePage(resp.body).err
    /\ DecodePage(resp.body).Paging # Null
    /\ DecodePage(resp.body).Paging.Next # EmptyString

\* C28: GetAll stops exactly at the first page without a (non-empty)
\* paging.next or at the first fetch that fails: every answer before the last
\* is a page with a cursor, GetAll has not returned while every answer so far
\* carried a cursor (whatever the number of pages and of records in them), and
\* it has returned as soon as an answer carries none.
C28_StopsAtLastPage ==
    CalledGetAll =>
        LET n == Len(responses) IN
        /\ \A i \in 1..(n - 1) : Continues(responses[i])
        /\ pc = "paging" => \A i \in 1..n : Continues(responses[i])
        /\ pc = "returned" => (n > 0 /\ ~Continues(responses[n])) \/ ~currentPath.valid
        /\ (pc = "returned" /\ result.ok) =>
              /\ n > 0
              /\ ~DecodePage(responses[n].body).err
              /\ ServedNext(responses[n]) = EmptyString

\* a server that answers every request with an empty page and the same cursor
C28_Witness ==
    /\ CalledGetAll
    /\ pc = "paging"
    /\ Len(responses) = MaxPages
    /\ \A i \in 1..Len(responses) :
          responses[i] = Response(200, HMissing,
                                  PageBody(<<>>, PagingNext(Cursor("c1", "tokA"))))
    /\ all = <<>>


\* ========================================================================
\* Properties of the callback parameters
\* ========================================================================
\* a callback with a non-empty code and no error parameter
CodeOnly(e) ==
    e.ev = "callback" /\ ValuesGet(e.q, "code") # "" /\ ValuesGet(e.q, "error") = ""

\* a callback with neither a code nor an error
Neither(e) ==
    e.ev = "callback" /\ ValuesGet(e.q, "code") = "" /\ ValuesGet(e.q, "error") = ""

\* a callback with both an error and a code
Both(e) ==
    e.ev = "callback" /\ ValuesGet(e.q, "code") # "" /\ ValuesGet(e.q, "error") # ""

\* every event before the select completed satisfies K
OnlyNeither == SelectAt > 1 /\ \A i \in 1..(SelectAt - 1) : Neither(events[i])

OnlyBoth == SelectAt > 1 /\ \A i \in 1..(SelectAt - 1) : Both(events[i])

\* C29: a token-endpoint request is sent only after a callback with a
\* non-empty code and no error parameter, and carries that code; when the
\* callbacks received carried neither a code nor an error the flow fails with
\* the no-code error, when they carried both an error and a code it fails
\* with that OAuth error, and in both cases nothing is sent to the token
\* endpoint and the config file is unchanged.
C29_CallbackClassification ==
    command.name = "login" =>
        /\ httpLog # <<>> =>
              \E i \in 1..(SelectAt - 1) :
                  /\ CodeOnly(events[i])
                  /\ httpLog[1].params.code = events[i].q["code"]
        /\ OnlyNeither =>
              /\ selected.case = "err" /\ selected.val = NoCodeError
              /\ lpc \in {"selected", "failed"}
              /\ lpc = "failed" => loginResult.err = NoCodeError
              /\ httpLog = <<>> /\ cfgFile = cfgFile0
        /\ OnlyBoth =>
              /\ selected.case = "err"
              /\ selected.val = OAuthError(events[1].q["error"],
                                           ValuesGet(events[1].q, "error_description"))
              /\ lpc \in {"selected", "failed"}
              /\ lpc = "failed" => loginResult.err = selected.val
              /\ httpLog = <<>> /\ cfgFile = cfgFile0

C29_Witness ==
    /\ command.name = "login"
    /\ OnlyBoth
    /\ events[1].q["code"] = "abc123"
    /\ lpc = "failed"
    /\ loginResult.err.kind = "OAuth error"
    /\ httpLog = <<>>
    /\ cfgFile = FileWith(ConfigToJSON(StoredConfig))


\* ========================================================================
\* Properties of an auth command followed by an API command
\* ========================================================================
\* the auth command saved a configuration and returned nil
Saved ==
    /\ lpc = "done"
    /\ command.name = "extend-token" => command.authExtendTokenSave

\* the token and the app secret the auth command gave to config.Save
SavedToken == IF command.name = "set-token" THEN finalToken ELSE longToken

SavedSecret == creds.appSecret

\* PersistentPreRunE of the following command has returned
FollowingResolved == rpc \in {"ready", "failed"}

====
